---- MODULE Spec2Model ----
(***************************************************************************)
(* A model of mesh2img.py: the batch set up by Mesh2Img (paths and job     *)
(* templates), the run of Mesh2Img.start() against the host scene, and the *)
(* output path resolution of JobTemplate.get_output_path.                  *)
(*                                                                         *)
(* Python strings are modelled as sequences of one-character strings, so   *)
(* that splitting, lowering, parsing and formatting are computed as the    *)
(* code computes them.                                                     *)
(***************************************************************************)
EXTENDS Integers, Sequences, FiniteSets, TLC

(***************************************************************************)
(* Bounds of the model.                                                    *)
(***************************************************************************)
\* the longest list of input paths given to Mesh2Img
MaxPaths == 2
\* the longest list of dimensions (job templates) given to Mesh2Img
MaxJobs == 2
\* the number of seconds the clock may advance during one run
MaxClock == 1

(***************************************************************************)
(* Characters and strings.                                                 *)
(***************************************************************************)
UpperChars == <<"A","B","C","D","E","F","G","H","I","J","K","L","M",
                "N","O","P","Q","R","S","T","U","V","W","X","Y","Z">>
LowerChars == <<"a","b","c","d","e","f","g","h","i","j","k","l","m",
                "n","o","p","q","r","s","t","u","v","w","x","y","z">>
DigitChars == <<"0","1","2","3","4","5","6","7","8","9">>

IsDigit(c) == \E i \in 1..10 : DigitChars[i] = c
DigitVal(c) == (CHOOSE i \in 1..10 : DigitChars[i] = c) - 1

\* str.lower() on one character, then on a string
LowerChar(c) ==
    IF \E i \in 1..26 : UpperChars[i] = c
    THEN LowerChars[CHOOSE i \in 1..26 : UpperChars[i] = c]
    ELSE c
Lower(s) == [i \in 1..Len(s) |-> LowerChar(s[i])]

\* str.rfind(c): the last index of c in s, 0 when absent (Python: -1)
RFind(s, c) ==
    IF \E i \in 1..Len(s) : s[i] = c
    THEN CHOOSE i \in 1..Len(s) : s[i] = c /\ \A j \in (i+1)..Len(s) : s[j] # c
    ELSE 0

\* os.path.splitext(p): [root, ext]; the extension starts at the last dot
\* of the last path component, unless that component has only leading dots
\* before it
Splitext(p) ==
    LET sepIndex == RFind(p, "/")
        dotIndex == RFind(p, ".")
    IN  IF dotIndex > sepIndex
           /\ \E k \in (sepIndex+1)..(dotIndex-1) : p[k] # "."
        THEN [root |-> SubSeq(p, 1, dotIndex - 1),
              ext  |-> SubSeq(p, dotIndex, Len(p))]
        ELSE [root |-> p, ext |-> <<>>]

\* os.path.basename(p)
Basename(p) == SubSeq(p, RFind(p, "/") + 1, Len(p))

\* os.path.join(folder, filename) for a relative filename
PathJoin(folder, filename) ==
    IF folder = <<>> \/ folder[Len(folder)] = "/"
    THEN folder \o filename
    ELSE folder \o <<"/">> \o filename

\* str(n) / format(n) of an integer
RECURSIVE NatToStr(_)
NatToStr(n) ==
    IF n < 10 THEN <<DigitChars[n + 1]>>
    ELSE NatToStr(n \div 10) \o <<DigitChars[(n % 10) + 1]>>
IntToStr(n) == IF n < 0 THEN <<"-">> \o NatToStr(-n) ELSE NatToStr(n)

\* the value of a string of digits, the underscores between them skipped
RECURSIVE DigitsVal(_)
DigitsVal(s) ==
    IF s = <<>> THEN 0
    ELSE IF s[Len(s)] = "_" THEN DigitsVal(SubSeq(s, 1, Len(s) - 1))
    ELSE 10 * DigitsVal(SubSeq(s, 1, Len(s) - 1)) + DigitVal(s[Len(s)])

\* the ASCII characters int() takes for white space: space, tab, line
\* feed, vertical tab (written as the character itself, code 11), form
\* feed, carriage return
Whitespace == {" ", "\t", "\n", "", "\f", "\r"}

\* s without the white space at its ends
Strip(s) ==
    LET inside == { i \in 1..Len(s) : s[i] \notin Whitespace }
    IN  IF inside = {} THEN <<>>
        ELSE SubSeq(s, CHOOSE i \in inside : \A k \in inside : i <= k,
                       CHOOSE i \in inside : \A k \in inside : k <= i)

\* int(s) of a string: white space at the ends is dropped; what is left is
\* an optional sign, then digits, with single underscores allowed between
\* two digits; anything else is a ValueError
ParseInt(s) ==
    LET t      == Strip(s)
        signed == t # <<>> /\ t[1] \in {"-", "+"}
        body   == IF signed THEN Tail(t) ELSE t
    IN  IF /\ body # <<>>
           /\ \A i \in 1..Len(body) :
                 \/ IsDigit(body[i])
                 \/ /\ body[i] = "_" /\ 1 < i /\ i < Len(body)
                    /\ IsDigit(body[i-1]) /\ IsDigit(body[i+1])
        THEN [error |-> "",
              val   |-> IF signed /\ t[1] = "-"
                        THEN 0 - DigitsVal(body) ELSE DigitsVal(body)]
        ELSE [error |-> "ValueError", val |-> 0]

(***************************************************************************)
(* Python values given as dimensions: a string, an integer, or a list or   *)
(* tuple of strings and integers.                                          *)
(***************************************************************************)
StrV(s)  == [t |-> "str",  s |-> s,    n |-> 0, items |-> <<>>]
IntV(n)  == [t |-> "int",  s |-> <<>>, n |-> n, items |-> <<>>]
ListV(l) == [t |-> "list", s |-> <<>>, n |-> 0, items |-> l]

\* int(v)
IntOf(v) ==
    CASE v.t = "int"  -> [error |-> "", val |-> v.n]
      [] v.t = "str"  -> ParseInt(v.s)
      [] OTHER        -> [error |-> "TypeError", val |-> 0]

(***************************************************************************)
(* JobTemplate.                                                            *)
(***************************************************************************)
PNG == <<"p","n","g">>
JPG == <<"j","p","g">>
BMP == <<"b","m","p">>
TIF == <<"t","i","f">>
\* the keys of Mesh2Img.IMAGE_FORMATS
IMAGE_FORMATS == {BMP, JPG, PNG, TIF}

\* the default of add_job_template's and __init__'s jpeg_quality
JpegQuality == 80

\* `width, height = dimensions`: a TypeError for a value that cannot be
\* iterated, the two items of a value of length two (the two characters of
\* a string of length two), and otherwise the ValueError whose handler
\* takes the value for both
Unpack(dimensions) ==
    CASE dimensions.t = "int" ->
           [error |-> "TypeError", width |-> dimensions, height |-> dimensions]
      [] dimensions.t = "str" /\ Len(dimensions.s) = 2 ->
           [error |-> "", width  |-> StrV(<<dimensions.s[1]>>),
                          height |-> StrV(<<dimensions.s[2]>>)]
      [] dimensions.t = "list" /\ Len(dimensions.items) = 2 ->
           [error |-> "", width  |-> dimensions.items[1],
                          height |-> dimensions.items[2]]
      [] OTHER ->
           [error |-> "", width |-> dimensions, height |-> dimensions]

\* the job template of the size w x h, or the first error of those raised
\* by the unpacking and by the int() of the width and of the height
JobTemplateSized(unpack_error, w, h, output_template, image_format) ==
    LET err == IF unpack_error # "" THEN unpack_error
               ELSE IF w.error # "" THEN w.error ELSE h.error
    IN  [error           |-> err,
         width           |-> IF err = "" THEN w.val ELSE 0,
         height          |-> IF err = "" THEN h.val ELSE 0,
         output_template |-> output_template,
         image_format    |-> IF image_format = <<>> THEN PNG ELSE image_format,
         jpeg_quality    |-> JpegQuality]

JobTemplateOf(u, output_template, image_format) ==
    JobTemplateSized(u.error, IntOf(u.width), IntOf(u.height),
                     output_template, image_format)

\* JobTemplate.__init__: the new object, or the error it raises
JobTemplate(dimensions, output_template, image_format) ==
    JobTemplateOf(Unpack(dimensions), output_template, image_format)

(***************************************************************************)
(* str.format with keyword arguments only, as CPython 3 computes it.  kw   *)
(* is a sequence of [name, value] records, a value being a string or an    *)
(* integer.  A replacement field is {name.attr[index]!conversion:spec}:    *)
(* the name is looked up, attributes and indices are taken from the value, *)
(* the conversion is applied, the replacement fields inside the spec are   *)
(* filled in, and the value is formatted by the spec.  The result is the   *)
(* sequence of pieces, one per literal character or replacement field, or  *)
(* the error raised.                                                       *)
(*                                                                         *)
(* Strings are of ASCII characters.  A text that is not computed here (it  *)
(* holds the address of an object, a documentation string, or a character  *)
(* outside the tables below) is written as the one element Unknown, and    *)
(* the formatting goes on after it.  Where it is not computed whether an   *)
(* error is raised at all (an attribute of a method, an index into such a  *)
(* text, a width no sequence can hold), the result is the error            *)
(* "NotModelled".                                                          *)
(***************************************************************************)
NotModelled == "NotModelled"
Unknown     == <<NotModelled>>

Ok(text) == [error |-> "", text |-> text]
Err(e)   == [error |-> e, text |-> <<>>]

\* the characters chr(32) .. chr(126); chr(96), which no string of a module
\* can hold, is left empty
PrintableChars ==
    << " ","!","\"","#","$","%","&","'","(",")","*","+",",","-",".","/",
       "0","1","2","3","4","5","6","7","8","9",":",";","<","=",">","?",
       "@","A","B","C","D","E","F","G","H","I","J","K","L","M","N","O",
       "P","Q","R","S","T","U","V","W","X","Y","Z","[","\\","]","^","_",
       "","a","b","c","d","e","f","g","h","i","j","k","l","m","n","o",
       "p","q","r","s","t","u","v","w","x","y","z","{","|","}","~" >>

\* the vertical tab, chr(11), written as the character itself
VT == ""

Max2(a, b) == IF a > b THEN a ELSE b
Min2(a, b) == IF a < b THEN a ELSE b
Repeat(c, n) == [i \in 1..n |-> c]

\* the first index from i on at which t has a character of S, 0 when none
FindFirst(t, i, S) ==
    IF \E k \in i..Len(t) : t[k] \in S
    THEN CHOOSE k \in i..Len(t) : t[k] \in S /\ \A m \in i..(k-1) : t[m] \notin S
    ELSE 0

\* the digits at the start of s from index i on
DigitRun(s, i) ==
    LET e == IF \E k \in i..Len(s) : ~ IsDigit(s[k])
             THEN CHOOSE k \in i..Len(s) :
                     ~ IsDigit(s[k]) /\ \A m \in i..(k-1) : IsDigit(s[m])
             ELSE Len(s) + 1
    IN  SubSeq(s, i, e - 1)

StripZeros(d) ==
    IF \E i \in 1..Len(d) : d[i] # "0"
    THEN SubSeq(d, CHOOSE i \in 1..Len(d) :
                      d[i] # "0" /\ \A m \in 1..(i-1) : d[m] = "0", Len(d))
    ELSE <<>>

\* a < b for two strings of digits of one length
RECURSIVE DigitsLess(_, _)
DigitsLess(a, b) ==
    IF a = <<>> THEN FALSE
    ELSE IF a[1] # b[1] THEN DigitVal(a[1]) < DigitVal(b[1])
    ELSE DigitsLess(Tail(a), Tail(b))

\* the number the digits d spell is larger than the one limit spells
Exceeds(d, limit) ==
    LET z == StripZeros(d)
    IN  \/ Len(z) > Len(limit)
        \/ Len(z) = Len(limit) /\ DigitsLess(limit, z)

\* PY_SSIZE_T_MAX and INT_MAX
SSizeMax == <<"9","2","2","3","3","7","2","0","3","6","8","5","4","7","7","5","8","0","7">>
IntMax   == <<"2","1","4","7","4","8","3","6","4","7">>

\* a number read from digits: its value, or that it is too large for an
\* integer of the model
NumberOf(d) ==
    IF Len(StripZeros(d)) > 9 THEN [kind |-> "big", val |-> 0]
    ELSE [kind |-> "int", val |-> DigitsVal(StripZeros(d))]

\* get_integer of the field name parser: "none" for a string that is not
\* all digits, "overflow" for digits beyond PY_SSIZE_T_MAX (found before a
\* later character that is no digit is read)
GetInteger(s) ==
    IF s = <<>> THEN [kind |-> "none", val |-> 0]
    ELSE IF Exceeds(DigitRun(s, 1), SSizeMax) THEN [kind |-> "overflow", val |-> 0]
    ELSE IF Len(DigitRun(s, 1)) < Len(s) THEN [kind |-> "none", val |-> 0]
    ELSE NumberOf(s)

(* parse_field: the syntax of one replacement field *)

\* the index of the '}', ':' or '!' that ends the field name starting at
\* k, a '[' hiding everything up to the next ']'; 0 for a '{' in the name
\* or a name that never ends
RECURSIVE FieldNameEnd(_, _)
FieldNameEnd(t, k) ==
    IF k > Len(t) THEN 0
    ELSE CASE t[k] = "{" -> 0
           [] t[k] = "[" ->
                IF FindFirst(t, k + 1, {"]"}) = 0 THEN 0
                ELSE FieldNameEnd(t, FindFirst(t, k + 1, {"]"}) + 1)
           [] t[k] \in {"}", ":", "!"} -> k
           [] OTHER -> FieldNameEnd(t, k + 1)

\* the index of the '}' that closes the format spec starting at s, the
\* braces inside it counted; 0 when there is none
RECURSIVE SpecEnd(_, _, _)
SpecEnd(t, s, count) ==
    IF s > Len(t) THEN 0
    ELSE CASE t[s] = "{" -> SpecEnd(t, s + 1, count + 1)
           [] t[s] = "}" -> IF count = 1 THEN s ELSE SpecEnd(t, s + 1, count - 1)
           [] OTHER -> SpecEnd(t, s + 1, count)

Field(name, conv, spec, next) ==
    [error |-> "", name |-> name, conv |-> conv, spec |-> spec,
     expand |-> \E i \in 1..Len(spec) : spec[i] = "{", next |-> next]
BadField ==
    [error |-> "ValueError", name |-> <<>>, conv |-> "", spec |-> <<>>,
     expand |-> FALSE, next |-> 0]

\* the field whose '{' is at j: its name, its conversion character ("" for
\* none), its format spec and the index after its '}'
ParseField(t, j) ==
    LET e == FieldNameEnd(t, j + 1)
    IN  IF e = 0 THEN BadField
        ELSE
          LET name    == SubSeq(t, j + 1, e - 1)
              hasConv == t[e] = "!"
              conv    == IF hasConv /\ e + 1 <= Len(t) THEN t[e + 1] ELSE ""
              s       == IF hasConv THEN e + 3 ELSE e + 1
              c       == SpecEnd(t, s, 1)
          IN  IF t[e] = "}" THEN Field(name, "", <<>>, e + 1)
              ELSE IF hasConv /\ e + 1 > Len(t) THEN BadField
              ELSE IF hasConv /\ e + 2 <= Len(t) /\ t[e + 2] = "}"
              THEN Field(name, conv, <<>>, e + 3)
              ELSE IF hasConv /\ e + 2 <= Len(t) /\ t[e + 2] # ":" THEN BadField
              ELSE IF c = 0 THEN BadField
              ELSE Field(name, conv, SubSeq(t, s, c - 1), c + 1)

(* get_field_object: the value a field name stands for *)

\* the value of an attribute that is a method (its text holds an address)
\* or the class, and a string whose characters are not computed
MethodV == [t |-> "method", s |-> <<>>,    n |-> 0, items |-> <<>>]
ClassV  == [t |-> "class",  s |-> <<>>,    n |-> 0, items |-> <<>>]
TextV   == [t |-> "text",   s |-> Unknown, n |-> 0, items |-> <<>>]

\* dir(str), and dir(int) without real, imag, numerator and denominator,
\* both without __doc__
StrAttributes ==
    { <<"_","_","a","d","d","_","_">>, 
      <<"_","_","c","l","a","s","s","_","_">>, 
      <<"_","_","c","o","n","t","a","i","n","s","_","_">>, 
      <<"_","_","d","e","l","a","t","t","r","_","_">>, 
      <<"_","_","d","i","r","_","_">>, 
      <<"_","_","e","q","_","_">>, 
      <<"_","_","f","o","r","m","a","t","_","_">>, 
      <<"_","_","g","e","_","_">>, 
      <<"_","_","g","e","t","a","t","t","r","i","b","u","t","e","_","_">>, 
      <<"_","_","g","e","t","i","t","e","m","_","_">>, 
      <<"_","_","g","e","t","n","e","w","a","r","g","s","_","_">>, 
      <<"_","_","g","e","t","s","t","a","t","e","_","_">>, 
      <<"_","_","g","t","_","_">>, <<"_","_","h","a","s","h","_","_">>, 
      <<"_","_","i","n","i","t","_","_">>, 
      <<"_","_","i","n","i","t","_","s","u","b","c","l","a","s","s","_","_">>, 
      <<"_","_","i","t","e","r","_","_">>, <<"_","_","l","e","_","_">>, 
      <<"_","_","l","e","n","_","_">>, <<"_","_","l","t","_","_">>, 
      <<"_","_","m","o","d","_","_">>, <<"_","_","m","u","l","_","_">>, 
      <<"_","_","n","e","_","_">>, <<"_","_","n","e","w","_","_">>, 
      <<"_","_","r","e","d","u","c","e","_","_">>, 
      <<"_","_","r","e","d","u","c","e","_","e","x","_","_">>, 
      <<"_","_","r","e","p","r","_","_">>, 
      <<"_","_","r","m","o","d","_","_">>, 
      <<"_","_","r","m","u","l","_","_">>, 
      <<"_","_","s","e","t","a","t","t","r","_","_">>, 
      <<"_","_","s","i","z","e","o","f","_","_">>, 
      <<"_","_","s","t","r","_","_">>, 
      <<"_","_","s","u","b","c","l","a","s","s","h","o","o","k","_","_">>, 
      <<"c","a","p","i","t","a","l","i","z","e">>, 
      <<"c","a","s","e","f","o","l","d">>, <<"c","e","n","t","e","r">>, 
      <<"c","o","u","n","t">>, <<"e","n","c","o","d","e">>, 
      <<"e","n","d","s","w","i","t","h">>, 
      <<"e","x","p","a","n","d","t","a","b","s">>, <<"f","i","n","d">>, 
      <<"f","o","r","m","a","t">>, 
      <<"f","o","r","m","a","t","_","m","a","p">>, <<"i","n","d","e","x">>, 
      <<"i","s","a","l","n","u","m">>, <<"i","s","a","l","p","h","a">>, 
      <<"i","s","a","s","c","i","i">>, 
      <<"i","s","d","e","c","i","m","a","l">>, 
      <<"i","s","d","i","g","i","t">>, 
      <<"i","s","i","d","e","n","t","i","f","i","e","r">>, 
      <<"i","s","l","o","w","e","r">>, 
      <<"i","s","n","u","m","e","r","i","c">>, 
      <<"i","s","p","r","i","n","t","a","b","l","e">>, 
      <<"i","s","s","p","a","c","e">>, <<"i","s","t","i","t","l","e">>, 
      <<"i","s","u","p","p","e","r">>, <<"j","o","i","n">>, 
      <<"l","j","u","s","t">>, <<"l","o","w","e","r">>, 
      <<"l","s","t","r","i","p">>, <<"m","a","k","e","t","r","a","n","s">>, 
      <<"p","a","r","t","i","t","i","o","n">>, 
      <<"r","e","m","o","v","e","p","r","e","f","i","x">>, 
      <<"r","e","m","o","v","e","s","u","f","f","i","x">>, 
      <<"r","e","p","l","a","c","e">>, <<"r","f","i","n","d">>, 
      <<"r","i","n","d","e","x">>, <<"r","j","u","s","t">>, 
      <<"r","p","a","r","t","i","t","i","o","n">>, 
      <<"r","s","p","l","i","t">>, <<"r","s","t","r","i","p">>, 
      <<"s","p","l","i","t">>, <<"s","p","l","i","t","l","i","n","e","s">>, 
      <<"s","t","a","r","t","s","w","i","t","h">>, <<"s","t","r","i","p">>, 
      <<"s","w","a","p","c","a","s","e">>, <<"t","i","t","l","e">>, 
      <<"t","r","a","n","s","l","a","t","e">>, <<"u","p","p","e","r">>, 
      <<"z","f","i","l","l">> }
IntAttributes ==
    { <<"_","_","a","b","s","_","_">>, <<"_","_","a","d","d","_","_">>, 
      <<"_","_","a","n","d","_","_">>, <<"_","_","b","o","o","l","_","_">>, 
      <<"_","_","c","e","i","l","_","_">>, 
      <<"_","_","c","l","a","s","s","_","_">>, 
      <<"_","_","d","e","l","a","t","t","r","_","_">>, 
      <<"_","_","d","i","r","_","_">>, 
      <<"_","_","d","i","v","m","o","d","_","_">>, 
      <<"_","_","e","q","_","_">>, 
      <<"_","_","f","l","o","a","t","_","_">>, 
      <<"_","_","f","l","o","o","r","_","_">>, 
      <<"_","_","f","l","o","o","r","d","i","v","_","_">>, 
      <<"_","_","f","o","r","m","a","t","_","_">>, 
      <<"_","_","g","e","_","_">>, 
      <<"_","_","g","e","t","a","t","t","r","i","b","u","t","e","_","_">>, 
      <<"_","_","g","e","t","n","e","w","a","r","g","s","_","_">>, 
      <<"_","_","g","e","t","s","t","a","t","e","_","_">>, 
      <<"_","_","g","t","_","_">>, <<"_","_","h","a","s","h","_","_">>, 
      <<"_","_","i","n","d","e","x","_","_">>, 
      <<"_","_","i","n","i","t","_","_">>, 
      <<"_","_","i","n","i","t","_","s","u","b","c","l","a","s","s","_","_">>, 
      <<"_","_","i","n","t","_","_">>, 
      <<"_","_","i","n","v","e","r","t","_","_">>, 
      <<"_","_","l","e","_","_">>, 
      <<"_","_","l","s","h","i","f","t","_","_">>, 
      <<"_","_","l","t","_","_">>, <<"_","_","m","o","d","_","_">>, 
      <<"_","_","m","u","l","_","_">>, <<"_","_","n","e","_","_">>, 
      <<"_","_","n","e","g","_","_">>, <<"_","_","n","e","w","_","_">>, 
      <<"_","_","o","r","_","_">>, <<"_","_","p","o","s","_","_">>, 
      <<"_","_","p","o","w","_","_">>, <<"_","_","r","a","d","d","_","_">>, 
      <<"_","_","r","a","n","d","_","_">>, 
      <<"_","_","r","d","i","v","m","o","d","_","_">>, 
      <<"_","_","r","e","d","u","c","e","_","_">>, 
      <<"_","_","r","e","d","u","c","e","_","e","x","_","_">>, 
      <<"_","_","r","e","p","r","_","_">>, 
      <<"_","_","r","f","l","o","o","r","d","i","v","_","_">>, 
      <<"_","_","r","l","s","h","i","f","t","_","_">>, 
      <<"_","_","r","m","o","d","_","_">>, 
      <<"_","_","r","m","u","l","_","_">>, <<"_","_","r","o","r","_","_">>, 
      <<"_","_","r","o","u","n","d","_","_">>, 
      <<"_","_","r","p","o","w","_","_">>, 
      <<"_","_","r","r","s","h","i","f","t","_","_">>, 
      <<"_","_","r","s","h","i","f","t","_","_">>, 
      <<"_","_","r","s","u","b","_","_">>, 
      <<"_","_","r","t","r","u","e","d","i","v","_","_">>, 
      <<"_","_","r","x","o","r","_","_">>, 
      <<"_","_","s","e","t","a","t","t","r","_","_">>, 
      <<"_","_","s","i","z","e","o","f","_","_">>, 
      <<"_","_","s","t","r","_","_">>, <<"_","_","s","u","b","_","_">>, 
      <<"_","_","s","u","b","c","l","a","s","s","h","o","o","k","_","_">>, 
      <<"_","_","t","r","u","e","d","i","v","_","_">>, 
      <<"_","_","t","r","u","n","c","_","_">>, 
      <<"_","_","x","o","r","_","_">>, 
      <<"a","s","_","i","n","t","e","g","e","r","_","r","a","t","i","o">>, 
      <<"b","i","t","_","c","o","u","n","t">>, 
      <<"b","i","t","_","l","e","n","g","t","h">>, 
      <<"c","o","n","j","u","g","a","t","e">>, 
      <<"f","r","o","m","_","b","y","t","e","s">>, 
      <<"t","o","_","b","y","t","e","s">> }

\* the names a method has: dir of a built-in method and of a method-wrapper
MethodAttributes ==
    { <<"_","_","c","a","l","l","_","_">>, 
      <<"_","_","c","l","a","s","s","_","_">>, 
      <<"_","_","d","e","l","a","t","t","r","_","_">>, 
      <<"_","_","d","i","r","_","_">>, <<"_","_","d","o","c","_","_">>, 
      <<"_","_","e","q","_","_">>, 
      <<"_","_","f","o","r","m","a","t","_","_">>, 
      <<"_","_","g","e","_","_">>, 
      <<"_","_","g","e","t","a","t","t","r","i","b","u","t","e","_","_">>, 
      <<"_","_","g","e","t","s","t","a","t","e","_","_">>, 
      <<"_","_","g","t","_","_">>, <<"_","_","h","a","s","h","_","_">>, 
      <<"_","_","i","n","i","t","_","_">>, 
      <<"_","_","i","n","i","t","_","s","u","b","c","l","a","s","s","_","_">>, 
      <<"_","_","l","e","_","_">>, <<"_","_","l","t","_","_">>, 
      <<"_","_","m","o","d","u","l","e","_","_">>, 
      <<"_","_","n","a","m","e","_","_">>, <<"_","_","n","e","_","_">>, 
      <<"_","_","n","e","w","_","_">>, 
      <<"_","_","o","b","j","c","l","a","s","s","_","_">>, 
      <<"_","_","q","u","a","l","n","a","m","e","_","_">>, 
      <<"_","_","r","e","d","u","c","e","_","_">>, 
      <<"_","_","r","e","d","u","c","e","_","e","x","_","_">>, 
      <<"_","_","r","e","p","r","_","_">>, 
      <<"_","_","s","e","l","f","_","_">>, 
      <<"_","_","s","e","t","a","t","t","r","_","_">>, 
      <<"_","_","s","i","z","e","o","f","_","_">>, 
      <<"_","_","s","t","r","_","_">>, 
      <<"_","_","s","u","b","c","l","a","s","s","h","o","o","k","_","_">>, 
      <<"_","_","t","e","x","t","_","s","i","g","n","a","t","u","r","e","_","_">> }
\* the names a class has besides those of its instances: dir(type)
TypeAttributes ==
    { 
      <<"_","_","a","b","s","t","r","a","c","t","m","e","t","h","o","d","s","_","_">>, 
      <<"_","_","a","n","n","o","t","a","t","i","o","n","s","_","_">>, 
      <<"_","_","b","a","s","e","_","_">>, 
      <<"_","_","b","a","s","e","s","_","_">>, 
      <<"_","_","b","a","s","i","c","s","i","z","e","_","_">>, 
      <<"_","_","c","a","l","l","_","_">>, 
      <<"_","_","d","i","c","t","_","_">>, 
      <<"_","_","d","i","c","t","o","f","f","s","e","t","_","_">>, 
      <<"_","_","f","l","a","g","s","_","_">>, 
      <<"_","_","i","n","s","t","a","n","c","e","c","h","e","c","k","_","_">>, 
      <<"_","_","i","t","e","m","s","i","z","e","_","_">>, 
      <<"_","_","m","o","d","u","l","e","_","_">>, 
      <<"_","_","m","r","o","_","_">>, <<"_","_","n","a","m","e","_","_">>, 
      <<"_","_","p","r","e","p","a","r","e","_","_">>, 
      <<"_","_","q","u","a","l","n","a","m","e","_","_">>, 
      <<"_","_","s","u","b","c","l","a","s","s","c","h","e","c","k","_","_">>, 
      <<"_","_","s","u","b","c","l","a","s","s","e","s","_","_">>, 
      <<"_","_","t","e","x","t","_","s","i","g","n","a","t","u","r","e","_","_">>, 
      <<"_","_","w","e","a","k","r","e","f","o","f","f","s","e","t","_","_">>, 
      <<"m","r","o">> }
\* the names the class of a string or of an integer may have
ClassAttributes ==
    StrAttributes \cup IntAttributes \cup TypeAttributes
      \cup { <<"_","_","d","o","c","_","_">>, <<"r","e","a","l">>, <<"i","m","a","g">>,
              <<"n","u","m","e","r","a","t","o","r">>,
              <<"d","e","n","o","m","i","n","a","t","o","r">> }

Val(v)      == [error |-> "", value |-> v]
NoVal(e)    == [error |-> e, value |-> TextV]

\* getattr(v, name)
GetAttr(v, name) ==
    CASE v.t = "int" /\ name \in {<<"r","e","a","l">>,
                                  <<"n","u","m","e","r","a","t","o","r">>} -> Val(v)
      [] v.t = "int" /\ name = <<"i","m","a","g">> -> Val(IntV(0))
      [] v.t = "int" /\ name = <<"d","e","n","o","m","i","n","a","t","o","r">> ->
           Val(IntV(1))
      [] v.t \in {"int", "str", "text"} /\ name = <<"_","_","d","o","c","_","_">> ->
           Val(TextV)
      [] v.t \in {"int", "str", "text"} /\ name = <<"_","_","c","l","a","s","s","_","_">> ->
           Val(ClassV)
      [] v.t = "int" /\ name \in IntAttributes -> Val(MethodV)
      [] v.t \in {"str", "text"} /\ name \in StrAttributes -> Val(MethodV)
      [] v.t = "method" /\ name \in MethodAttributes -> NoVal(NotModelled)
      [] v.t = "class" /\ name \in ClassAttributes -> NoVal(NotModelled)
      [] OTHER -> NoVal("AttributeError")

\* v[name], idx being name as get_integer reads it
GetItem(v, name, idx) ==
    CASE v.t \in {"int", "method", "class"} -> NoVal("TypeError")
      [] idx.kind = "none" -> NoVal("TypeError")
      [] v.t = "text" -> NoVal(NotModelled)
      [] idx.kind = "big" \/ idx.val >= Len(v.s) -> NoVal("IndexError")
      [] OTHER -> Val(StrV(<<v.s[idx.val + 1]>>))

\* FieldNameIterator: the attributes and indices after the first name,
\* taken one at a time
RECURSIVE GetRest(_, _)
\* what an attribute or an index gave, then the rest of the name
GetMore(got, more) ==
    IF got.error # "" THEN got ELSE GetRest(got.value, more)
\* the item of v at the key name, which spells the number idx
GetIndexed(v, name, idx, more) ==
    IF name = <<>> \/ idx.kind = "overflow" THEN NoVal("ValueError")
    ELSE GetMore(GetItem(v, name, idx), more)
GetRest(v, rest) ==
    IF rest = <<>> THEN Val(v)
    ELSE IF rest[1] = "." THEN
      LET e    == FindFirst(rest, 2, {".", "["})
          name == SubSeq(rest, 2, IF e = 0 THEN Len(rest) ELSE e - 1)
          more == IF e = 0 THEN <<>> ELSE SubSeq(rest, e, Len(rest))
      IN  IF name = <<>> THEN NoVal("ValueError")
          ELSE GetMore(GetAttr(v, name), more)
    ELSE IF rest[1] = "[" THEN
      LET c    == FindFirst(rest, 2, {"]"})
          name == SubSeq(rest, 2, c - 1)
      IN  IF c = 0 THEN NoVal("ValueError")
          ELSE GetIndexed(v, name, GetInteger(name),
                          SubSeq(rest, c + 1, Len(rest)))
    ELSE NoVal("ValueError")

\* the part of a field name before its first '.' or '['
FirstName(name) ==
    LET e == FindFirst(name, 1, {".", "["})
    IN  IF e = 0 THEN name ELSE SubSeq(name, 1, e - 1)

\* a format that takes a missing name for an empty value
HasKeyOrDefault(kw, name) == TRUE

HasKey(kw, name) == \E i \in 1..Len(kw) : kw[i].name = name
\* the value of name; the empty string stands for no value, which format
\* never asks for, since it raises a KeyError first
Lookup(kw, name) ==
    IF \E i \in 1..Len(kw) : kw[i].name = name
    THEN kw[CHOOSE i \in 1..Len(kw) : kw[i].name = name].value
    ELSE StrV(<<>>)

\* an empty or numbered first name asks for a positional argument, and
\* there is none; any other is a keyword
GetFieldObject(name, kw) ==
    LET first == FirstName(name)
        rest  == SubSeq(name, Len(first) + 1, Len(name))
        index == GetInteger(first)
    IN  IF index.kind = "overflow" THEN NoVal("ValueError")
        ELSE IF first = <<>> \/ index.kind # "none" THEN NoVal("IndexError")
        ELSE IF ~ HasKey(kw, first) THEN NoVal("KeyError")
        ELSE GetRest(Lookup(kw, first), rest)

(* do_conversion: !r, !s and !a *)

\* repr() of one character inside the quotes
ReprChar(c, quote) ==
    CASE c = quote \/ c = "\\" -> <<"\\", c>>
      [] c = "\t" -> <<"\\", "t">>
      [] c = "\n" -> <<"\\", "n">>
      [] c = "\r" -> <<"\\", "r">>
      [] c = VT   -> <<"\\", "x", "0", "b">>
      [] c = "\f" -> <<"\\", "x", "0", "c">>
      [] OTHER    -> <<c>>

RECURSIVE ReprBody(_, _, _)
ReprBody(s, quote, done) ==
    IF s = <<>> THEN done
    ELSE ReprBody(Tail(s), quote, done \o ReprChar(Head(s), quote))

\* repr(s) and ascii(s): double quotes only for a string with a single
\* quote and no double quote
Repr(s) ==
    LET quote == IF (\E i \in 1..Len(s) : s[i] = "'")
                    /\ ~ \E i \in 1..Len(s) : s[i] = "\""
                 THEN "\"" ELSE "'"
    IN  IF \A i \in 1..Len(s) :
              \/ \E k \in 1..Len(PrintableChars) : PrintableChars[k] = s[i]
              \/ s[i] \in Whitespace
        THEN Ok(<<quote>> \o ReprBody(s, quote, <<>>) \o <<quote>>)
        ELSE Err(NotModelled)

\* the value after the conversion conv ("" for none)
DoConversion(v, conv) ==
    CASE conv = "" -> Val(v)
      [] conv \notin {"r", "s", "a"} -> NoVal("ValueError")
      [] v.t \in {"method", "class", "text"} -> Val(TextV)
      [] v.t = "int" -> Val(StrV(IntToStr(v.n)))
      [] conv = "s" -> Val(v)
      [] OTHER -> IF Repr(v.s).error # "" THEN Val(TextV)
                  ELSE Val(StrV(Repr(v.s).text))

(* parse_internal_render_format_spec: *)
(* [[fill]align][sign][z][#][0][width][grouping][.precision][type] *)

IsAlign(c) == c \in {"<", ">", "=", "^"}

\* the type characters a thousands separator may come with
GroupingTypes == {"d", "e", "f", "g", "E", "G", "%", "F"}

\* the character of the spec at index i, "" past its end
SpecAt(sp, i) == IF i <= Len(sp) THEN sp[i] ELSE ""

\* what has been read of a spec, and the index of what is read next
NothingRead ==
    [pos |-> 1, fillGiven |-> FALSE, alignGiven |-> FALSE, sign |-> "",
     z |-> FALSE, alt |-> FALSE, zero |-> FALSE, wd |-> <<>>, comma |-> FALSE,
     under |-> FALSE, dot |-> FALSE, pd |-> <<>>]

\* [[fill]align]
ReadAlign(sp, r) ==
    IF Len(sp) >= 2 /\ IsAlign(sp[2])
    THEN [r EXCEPT !.fillGiven = TRUE, !.alignGiven = TRUE, !.pos = 3]
    ELSE IF Len(sp) >= 1 /\ IsAlign(sp[1])
    THEN [r EXCEPT !.alignGiven = TRUE, !.pos = 2]
    ELSE r

\* [sign]
ReadSign(sp, r) ==
    IF SpecAt(sp, r.pos) \in {"+", "-", " "}
    THEN [r EXCEPT !.sign = SpecAt(sp, r.pos), !.pos = r.pos + 1]
    ELSE r

\* [z]
ReadZ(sp, r) ==
    IF SpecAt(sp, r.pos) = "z" THEN [r EXCEPT !.z = TRUE, !.pos = r.pos + 1]
    ELSE r

\* [#]
ReadAlt(sp, r) ==
    IF SpecAt(sp, r.pos) = "#" THEN [r EXCEPT !.alt = TRUE, !.pos = r.pos + 1]
    ELSE r

\* [0], which stands for fill and alignment when none is given
ReadZero(sp, r) ==
    IF ~ r.fillGiven /\ SpecAt(sp, r.pos) = "0"
    THEN [r EXCEPT !.zero = TRUE, !.pos = r.pos + 1]
    ELSE r

\* [width]
ReadWidth(sp, r) ==
    [r EXCEPT !.wd = DigitRun(sp, r.pos), !.pos = r.pos + Len(DigitRun(sp, r.pos))]

\* [grouping]: a comma, then an underscore
ReadComma(sp, r) ==
    IF SpecAt(sp, r.pos) = "," THEN [r EXCEPT !.comma = TRUE, !.pos = r.pos + 1]
    ELSE r
ReadUnder(sp, r) ==
    IF SpecAt(sp, r.pos) = "_" THEN [r EXCEPT !.under = TRUE, !.pos = r.pos + 1]
    ELSE r

\* [.precision]; pos stays on the character after the grouping
ReadPrecision(sp, r) ==
    IF SpecAt(sp, r.pos) = "."
    THEN [r EXCEPT !.dot = TRUE, !.pd = DigitRun(sp, r.pos + 1)]
    ELSE r

\* [type], and the spec as the formatters take it
SpecRecord(sp, default_type, default_align, r) ==
    LET n    == Len(sp)
        p9   == IF r.dot THEN r.pos + 1 + Len(r.pd) ELSE r.pos
        type == IF p9 = n THEN sp[n] ELSE default_type
        sep  == IF r.comma THEN "," ELSE IF r.under THEN "_" ELSE ""
        bad  == \/ Exceeds(r.wd, SSizeMax)
                \/ r.comma /\ r.under
                \/ r.under /\ SpecAt(sp, r.pos) = ","
                \/ r.dot /\ (r.pd = <<>> \/ Exceeds(r.pd, SSizeMax))
                \/ p9 < n
                \/ /\ sep # ""
                   /\ type \notin GroupingTypes
                   /\ ~ (sep = "_" /\ type \in {"b", "o", "x", "X"})
    IN  [error     |-> IF bad THEN "ValueError" ELSE "",
         fill      |-> IF r.fillGiven THEN sp[1] ELSE IF r.zero THEN "0" ELSE " ",
         align     |-> IF r.fillGiven THEN sp[2]
                       ELSE IF r.alignGiven THEN sp[1]
                       ELSE IF r.zero /\ default_align = ">" THEN "="
                       ELSE default_align,
         sign      |-> r.sign,
         z         |-> r.z,
         alt       |-> r.alt,
         width     |-> IF r.wd = <<>> THEN [kind |-> "none", val |-> 0 - 1]
                       ELSE NumberOf(r.wd),
         sep       |-> sep,
         group     |-> IF sep = "" THEN 0
                       ELSE IF type \in {"b", "o", "x", "X"} THEN 4 ELSE 3,
         precision |-> IF ~ r.dot THEN [kind |-> "none", val |-> 0 - 1]
                       ELSE NumberOf(r.pd),
         precisionTooBig |-> r.dot /\ Exceeds(r.pd, IntMax),
         type      |-> type]

ParseSpec(sp, default_type, default_align) ==
    SpecRecord(sp, default_type, default_align,
      ReadPrecision(sp, ReadUnder(sp, ReadComma(sp, ReadWidth(sp,
        ReadZero(sp, ReadAlt(sp, ReadZ(sp, ReadSign(sp,
          ReadAlign(sp, NothingRead))))))))))

\* a width beyond which the text is not computed
TooWide(w) == w.kind = "big" \/ w.val > 65536

(* format_string_internal *)
\* the string s under the parsed spec f
FormatStrBy(s, f) ==
    LET len  == IF f.precision.kind = "int" /\ f.precision.val < Len(s)
                THEN f.precision.val ELSE Len(s)
        pad  == Max2(0, f.width.val - len)
        lpad == CASE f.align = ">" -> pad
                  [] f.align = "^" -> pad \div 2
                  [] OTHER -> 0
    IN  IF \/ f.error # "" \/ f.type # "s" \/ f.sign # "" \/ f.z \/ f.alt
           \/ f.align = "="
        THEN Err("ValueError")
        ELSE IF TooWide(f.width) THEN Err(NotModelled)
        ELSE Ok(Repeat(f.fill, lpad) \o SubSeq(s, 1, len)
                  \o Repeat(f.fill, pad - lpad))

FormatStr(s, sp) ==
    IF sp = <<>> THEN Ok(s) ELSE FormatStrBy(s, ParseSpec(sp, "s", "<"))

(* _PyUnicode_InsertThousandsGrouping: the digits in groups of l from the *)
(* right (l = 0: one group), with zeros in front up to min_width          *)
RECURSIVE GroupFrom(_, _, _, _, _, _, _)
GroupFrom(digits, remaining, min_width, l, sep, use_separator, done) ==
    LET ll      == Min2(l, Max2(Max2(remaining, min_width), 1))
        n_zeros == Max2(0, ll - remaining)
        n_chars == Max2(0, Min2(remaining, ll))
        group   == Repeat("0", n_zeros)
                     \o SubSeq(digits, remaining - n_chars + 1, remaining)
                     \o (IF use_separator THEN <<sep>> ELSE <<>>)
    IN  IF remaining - n_chars <= 0 /\ min_width - ll <= 0
        THEN group \o done
        ELSE GroupFrom(digits, remaining - n_chars, min_width - ll - 1,
                       l, sep, TRUE, group \o done)

InsertThousandsGrouping(digits, min_width, l, sep) ==
    IF l = 0
    THEN Repeat("0", Max2(0, Max2(Max2(Len(digits), min_width), 1) - Len(digits)))
           \o digits
    ELSE GroupFrom(digits, Len(digits), min_width, l, sep, FALSE, <<>>)

(* calc_number_widths and fill_number: padding, sign, prefix, padding     *)
(* after the sign, grouped digits, decimal point, remainder, padding      *)
FillNumber(f, negative, prefix, digits, has_decimal, remainder) ==
    LET sign    == CASE negative -> <<"-">>
                     [] f.sign = "+" -> <<"+">>
                     [] f.sign = " " -> <<" ">>
                     [] OTHER -> <<>>
        point   == IF has_decimal THEN <<".">> ELSE <<>>
        fixed   == Len(sign) + Len(prefix) + Len(point) + Len(remainder)
        min_w   == IF f.fill = "0" /\ f.align = "=" THEN f.width.val - fixed ELSE 0
        grouped == IF digits = <<>> THEN <<>>
                   ELSE InsertThousandsGrouping(digits, min_w, f.group, f.sep)
        pad     == Max2(0, f.width.val - (fixed + Len(grouped)))
        lpad    == CASE f.align = ">" -> pad
                     [] f.align = "^" -> pad \div 2
                     [] OTHER -> 0
        spad    == IF f.align = "=" THEN pad ELSE 0
        rpad    == pad - lpad - spad
    IN  IF TooWide(f.width) THEN Err(NotModelled)
        ELSE Ok(Repeat(f.fill, lpad) \o sign \o prefix \o Repeat(f.fill, spad)
                  \o grouped \o point \o remainder \o Repeat(f.fill, rpad))

HexLower == <<"0","1","2","3","4","5","6","7","8","9","a","b","c","d","e","f">>
HexUpper == <<"0","1","2","3","4","5","6","7","8","9","A","B","C","D","E","F">>

\* the digits of n >= 0 in a base
RECURSIVE ToBase(_, _, _)
ToBase(n, base, table) ==
    IF n < base THEN <<table[n + 1]>>
    ELSE ToBase(n \div base, base, table) \o <<table[(n % base) + 1]>>

Abs(n) == IF n < 0 THEN 0 - n ELSE n

\* chr(n) for 0 <= n <= 0x10ffff
Chr(n) ==
    CASE n >= 32 /\ n <= 126 /\ n # 96 -> Ok(<<PrintableChars[n - 31]>>)
      [] n = 9  -> Ok(<<"\t">>)
      [] n = 10 -> Ok(<<"\n">>)
      [] n = 11 -> Ok(<<VT>>)
      [] n = 12 -> Ok(<<"\f">>)
      [] n = 13 -> Ok(<<"\r">>)
      [] OTHER  -> Ok(Unknown)

(* format_long_internal: the types b, c, d, o, x, X and n *)
FormatLong(n, f) ==
    IF f.precision.kind # "none" \/ f.z THEN Err("ValueError")
    ELSE IF f.type = "c" THEN
      IF f.sign # "" \/ f.alt THEN Err("ValueError")
      ELSE IF n < 0 \/ n > 1114111 THEN Err("OverflowError")
      ELSE FillNumber(f, FALSE, <<>>, <<>>, FALSE, Chr(n).text)
    ELSE
      LET base   == CASE f.type = "b" -> 2
                      [] f.type = "o" -> 8
                      [] f.type \in {"x", "X"} -> 16
                      [] OTHER -> 10
          prefix == CASE ~ f.alt -> <<>>
                      [] f.type = "b" -> <<"0", "b">>
                      [] f.type = "o" -> <<"0", "o">>
                      [] f.type = "x" -> <<"0", "x">>
                      [] f.type = "X" -> <<"0", "X">>
                      [] OTHER -> <<>>
      IN  FillNumber(f, n < 0, prefix,
                     ToBase(Abs(n), base, IF f.type = "X" THEN HexUpper ELSE HexLower),
                     FALSE, <<>>)

(* float(n) formatted by e, f, g or %: computed on the decimal digits of n *)

StripTrailingZeros(d) ==
    IF \E i \in 1..Len(d) : d[i] # "0"
    THEN SubSeq(d, 1, CHOOSE i \in 1..Len(d) :
                         d[i] # "0" /\ \A m \in (i+1)..Len(d) : d[m] = "0")
    ELSE <<"0">>

\* the digits d of a whole number rounded half to even to k >= 1
\* significant digits: the digits left, the zeros at their end dropped,
\* and the number of digits before the decimal point
RoundDigits(d, k) ==
    IF d = <<"0">> THEN [digits |-> <<"0">>, decpt |-> 1]
    ELSE IF k >= Len(d) THEN [digits |-> StripTrailingZeros(d), decpt |-> Len(d)]
    ELSE
      LET head  == DigitsVal(SubSeq(d, 1, k))
          next  == DigitVal(d[k + 1])
          more  == \E i \in (k+2)..Len(d) : d[i] # "0"
          up    == next > 5 \/ (next = 5 /\ (more \/ head % 2 = 1))
          kept  == NatToStr(IF up THEN head + 1 ELSE head)
      IN  [digits |-> StripTrailingZeros(kept),
           decpt  |-> Len(d) + (Len(kept) - k)]

\* format_float_short: the characters before the decimal point, whether a
\* point is written, and what follows it
FloatPartsOf(r, code, p, alt) ==
    LET use_exp == code = "e" \/ (code = "g" /\ r.decpt > p)
        decpt   == IF use_exp THEN 1 ELSE r.decpt
        exp     == r.decpt - 1
        vend0   == CASE code = "e" -> p + 1
                     [] code = "f" -> r.decpt + p
                     [] alt        -> p
                     [] OTHER      -> Len(r.digits)
        vend    == Max2(vend0, decpt)
        At(i)   == IF i <= Len(r.digits) THEN r.digits[i] ELSE "0"
        frac    == [i \in 1..(vend - decpt) |-> At(decpt + i)]
    IN  [whole       |-> [i \in 1..decpt |-> At(i)],
         has_decimal |-> frac # <<>> \/ alt,
         remainder   |-> frac \o (IF use_exp
                                  THEN <<"e", "+">> \o (IF exp < 10 THEN <<"0">> ELSE <<>>)
                                         \o NatToStr(exp)
                                  ELSE <<>>)]

FloatParts(d, code, precision, alt) ==
    FloatPartsOf(CASE code = "e" -> RoundDigits(d, precision + 1)
                   [] code = "g" -> RoundDigits(d, Max2(precision, 1))
                   [] OTHER      -> RoundDigits(d, Len(d)),
                 code,
                 IF code = "g" THEN Max2(precision, 1) ELSE precision,
                 alt)

Upper(s) ==
    [i \in 1..Len(s) |->
        IF \E k \in 1..26 : LowerChars[k] = s[i]
        THEN UpperChars[CHOOSE k \in 1..26 : LowerChars[k] = s[i]] ELSE s[i]]

(* format_float_internal on float(n): the types e, E, f, F, g, G and % *)
FillFloat(n, f, parts) ==
    LET tail == parts.remainder \o (IF f.type = "%" THEN <<"%">> ELSE <<>>)
    IN  FillNumber(f, n < 0, <<>>, parts.whole, parts.has_decimal,
                   IF f.type \in {"E", "F", "G"} THEN Upper(tail) ELSE tail)

FormatFloat(n, f) ==
    LET code      == CASE f.type \in {"e", "E"} -> "e"
                       [] f.type \in {"g", "G"} -> "g"
                       [] OTHER -> "f"
        precision == IF f.precision.kind = "none" THEN 6 ELSE f.precision.val
        d         == IF f.type = "%" /\ n # 0
                     THEN NatToStr(Abs(n)) \o <<"0", "0">> ELSE NatToStr(Abs(n))
    IN  IF f.precisionTooBig THEN Err("ValueError")
        ELSE IF f.precision.kind = "big" \/ precision > 65536 THEN Err(NotModelled)
        ELSE FillFloat(n, f, FloatParts(d, code, precision, f.alt))

\* format(n, sp) of an integer
FormatIntBy(n, f) ==
    IF f.error # "" THEN Err("ValueError")
    ELSE IF f.type \in {"b", "c", "d", "o", "x", "X", "n"} THEN FormatLong(n, f)
    ELSE IF f.type \in {"e", "E", "f", "F", "g", "G", "%"} THEN FormatFloat(n, f)
    ELSE Err("ValueError")

FormatInt(n, sp) ==
    IF sp = <<>> THEN Ok(IntToStr(n)) ELSE FormatIntBy(n, ParseSpec(sp, "d", ">"))

\* format(v, sp); object.__format__ takes the empty spec only, and what
\* a spec makes an error for a string does not depend on the string
UnknownUnless(r) == IF r.error # "" THEN r ELSE Ok(Unknown)

FormatValue(v, sp) ==
    CASE v.t = "int" -> FormatInt(v.n, sp)
      [] v.t = "str" -> FormatStr(v.s, sp)
      [] v.t = "text" -> UnknownUnless(FormatStr(<<>>, sp))
      [] OTHER -> IF sp # <<>> THEN Err("TypeError") ELSE Ok(Unknown)

(* build_string and output_markup *)

Literal(c) == [field |-> <<>>, text |-> <<c>>]

RECURSIVE Join(_)
Join(pieces) ==
    IF pieces = <<>> THEN <<>> ELSE Head(pieces).text \o Join(Tail(pieces))

RECURSIVE FormatFrom(_, _, _, _, _)

\* render_field: the value v under the spec sp
RenderField(v, sp) ==
    IF \E i \in 1..Len(sp) : sp[i] = NotModelled THEN Err(NotModelled)
    ELSE FormatValue(v, sp)

\* the format spec of a field, its own fields filled in
ExpandSpec(fld, kw, recursion_depth) ==
    IF fld.expand
    THEN FormatFrom(fld.spec, 1, kw, recursion_depth - 1, <<>>)
    ELSE [error |-> "", pieces |-> <<[field |-> <<>>, text |-> fld.spec]>>]

OutputConverted(conv, spec) ==
    IF conv.error # "" THEN Err(conv.error)
    ELSE IF spec.error # "" THEN Err(spec.error)
    ELSE RenderField(conv.value, Join(spec.pieces))

OutputObject(obj, fld, kw, recursion_depth) ==
    IF obj.error # "" THEN Err(obj.error)
    ELSE OutputConverted(DoConversion(obj.value, fld.conv),
                         ExpandSpec(fld, kw, recursion_depth))

\* one replacement field: look the value up, convert it, fill in the
\* fields of its format spec, format it
OutputMarkup(fld, kw, recursion_depth) ==
    OutputObject(GetFieldObject(fld.name, kw), fld, kw, recursion_depth)

\* the text after the field fld, whose text is out
AfterField(t, kw, recursion_depth, done, fld, out) ==
    IF out.error # "" THEN [error |-> out.error, pieces |-> <<>>]
    ELSE FormatFrom(t, fld.next, kw, recursion_depth,
                    Append(done, [field |-> FirstName(fld.name),
                                  text  |-> out.text]))

\* the field fld of the text t, then the text after it
FieldFrom(t, kw, recursion_depth, done, fld) ==
    IF fld.error # "" THEN [error |-> "ValueError", pieces |-> <<>>]
    ELSE AfterField(t, kw, recursion_depth, done, fld,
                    OutputMarkup(fld, kw, recursion_depth))

\* the text t from index i on; a field is parsed, then filled in, before
\* the text after it is read
FormatFrom(t, i, kw, recursion_depth, done) ==
    IF recursion_depth <= 0 THEN [error |-> "ValueError", pieces |-> <<>>]
    ELSE IF i > Len(t) THEN [error |-> "", pieces |-> done]
    ELSE
      CASE t[i] = "{" /\ i < Len(t) /\ t[i+1] = "{" ->
             FormatFrom(t, i + 2, kw, recursion_depth, Append(done, Literal("{")))
        [] t[i] = "}" /\ i < Len(t) /\ t[i+1] = "}" ->
             FormatFrom(t, i + 2, kw, recursion_depth, Append(done, Literal("}")))
        [] t[i] = "}" -> [error |-> "ValueError", pieces |-> <<>>]
        [] t[i] = "{" ->
             IF i = Len(t) THEN [error |-> "ValueError", pieces |-> <<>>]
             ELSE FieldFrom(t, kw, recursion_depth, done, ParseField(t, i))
        [] OTHER -> FormatFrom(t, i + 1, kw, recursion_depth, Append(done, Literal(t[i])))

\* the result of formatting: the error or the pieces, and the text
Formatted(r) == [error |-> r.error, pieces |-> r.pieces, path |-> Join(r.pieces)]

\* str.format(**kw): build_string with a recursion depth of 2
Format(t, kw) == Formatted(FormatFrom(t, 1, kw, 2, <<>>))

(***************************************************************************)
(* The clock.  An instant is a number of seconds since midnight of the     *)
(* day the run is made on; a run stays within that day.                    *)
(***************************************************************************)
Pad2(n) == <<DigitChars[(n \div 10) + 1], DigitChars[(n % 10) + 1]>>

\* datetime.strftime('%Y-%m-%d_%H%M%S')
Strftime(now) ==
    <<"2","0","1","6","-","0","1","-","0","1","_">>
      \o Pad2(now \div 3600) \o Pad2((now \div 60) % 60) \o Pad2(now % 60)

\* the names of the keyword arguments get_output_path gives to format
N_basename  == <<"b","a","s","e","n","a","m","e">>
N_date      == <<"d","a","t","e">>
N_exec_time == <<"e","x","e","c","_","t","i","m","e">>
N_ext       == <<"e","x","t">>
N_filepath  == <<"f","i","l","e","p","a","t","h">>
N_height    == <<"h","e","i","g","h","t">>
N_src_ext   == <<"s","r","c","_","e","x","t">>
N_width     == <<"w","i","d","t","h">>

\* a get_output_path that takes the current time for exec_time
ExecTimeIgnored(exec_time, date) == date

\* `if not exec_time: exec_time = date`
ExecTimeOrDate(exec_time, date) == IF exec_time = <<>> THEN date ELSE exec_time

\* JobTemplate.get_output_path, called at the instant now
get_output_path(jt, input_filepath, exec_time, now) ==
    LET date     == Strftime(now)
        et       == ExecTimeOrDate(exec_time, date)
        sp       == Splitext(input_filepath)
        filepath == sp.root
        src_ext  == sp.ext
        basename == Basename(filepath)
        ext      == Lower(jt.image_format)
    IN  Format(jt.output_template,
               << [name |-> N_basename,  value |-> StrV(basename)],
                  [name |-> N_date,      value |-> StrV(date)],
                  [name |-> N_exec_time, value |-> StrV(et)],
                  [name |-> N_ext,       value |-> StrV(ext)],
                  [name |-> N_filepath,  value |-> StrV(filepath)],
                  [name |-> N_height,    value |-> IntV(jt.height)],
                  [name |-> N_src_ext,   value |-> StrV(src_ext)],
                  [name |-> N_width,     value |-> IntV(jt.width)] >>)

(***************************************************************************)
(* The file system the batch reads: the tree below the root directory,     *)
(* which is the current directory of the process too.  A directory lists   *)
(* its subdirectories and its files in an order the operating system       *)
(* chooses, each directory its own and anew each time it is listed.        *)
(***************************************************************************)
D_root == <<>>
D_m   == <<"m">>
D_m_s == <<"m","/","s">>
D_m_e == <<"m","/","e">>
D_t   == <<"t">>
F_a_stl == <<"a",".","s","t","l">>
F_b_txt == <<"b",".","t","x","t">>
F_c_PLY == <<"c",".","P","L","Y">>
F_d_ply == <<"d",".","p","l","y">>
F_d_stl == <<"d",".","s","t","l">>
F_dot_stl == <<".","s","t","l">>

\* directory (its path from the root, without dots and doubled slashes) ->
\* the subdirectories and the files it holds
Directories ==
    (D_root :> [subfolders |-> << <<"m">>, <<"t">> >>, filenames |-> <<>>])
 @@ (D_m   :> [subfolders |-> << <<"s">>, <<"e">> >>,
               filenames  |-> <<F_a_stl, F_b_txt, F_c_PLY>>])
 @@ (D_m_s :> [subfolders |-> <<>>, filenames |-> <<F_d_ply>>])
 @@ (D_m_e :> [subfolders |-> <<>>, filenames |-> <<F_b_txt, F_dot_stl>>])
 @@ (D_t   :> [subfolders |-> <<>>, filenames |-> <<F_d_ply, F_d_stl>>])

\* the orders a list of distinct names can be reported in
Perms(s) ==
    { p \in [1..Len(s) -> { s[i] : i \in 1..Len(s) }] :
        \A i \in 1..Len(s) : \E k \in 1..Len(s) : p[k] = s[i] }

\* what os.walk can report for one directory
ListingsOf(d) ==
    { [subfolders |-> p, filenames |-> q] :
        p \in Perms(Directories[d].subfolders),
        q \in Perms(Directories[d].filenames) }

\* directory path -> what os.walk reports for it, for every order of every
\* directory of dirs
RECURSIVE ListingsOver(_)
ListingsOver(dirs) ==
    IF dirs = {} THEN { <<>> }
    ELSE LET d == CHOOSE x \in dirs : TRUE
         IN  { (d :> l) @@ fs : l \in ListingsOf(d),
                                fs \in ListingsOver(dirs \ {d}) }

Listings == ListingsOver(DOMAIN Directories)

\* the names between the slashes of a path
RECURSIVE Components(_)
Components(path) ==
    IF RFind(path, "/") = 0 THEN << path >>
    ELSE Append(Components(SubSeq(path, 1, RFind(path, "/") - 1)),
                SubSeq(path, RFind(path, "/") + 1, Len(path)))

\* the directory a directory is in; the root is in itself
Parent(dir) == SubSeq(dir, 1, RFind(dir, "/") - 1)

NoEntry == [kind |-> "none", at |-> <<>>]

\* what the names lead to from the directory dir: an empty name and "."
\* stay, ".." goes up, a file ends the path
RECURSIVE ResolveFrom(_, _, _)
ResolveFrom(fs, dir, names) ==
    IF names = <<>> THEN [kind |-> "dir", at |-> dir]
    ELSE CASE Head(names) \in { <<>>, <<".">> } ->
                ResolveFrom(fs, dir, Tail(names))
           [] Head(names) = <<".", ".">> ->
                ResolveFrom(fs, Parent(dir), Tail(names))
           [] \E i \in 1..Len(fs[dir].subfolders) :
                 fs[dir].subfolders[i] = Head(names) ->
                ResolveFrom(fs, PathJoin(dir, Head(names)), Tail(names))
           [] /\ \E i \in 1..Len(fs[dir].filenames) :
                    fs[dir].filenames[i] = Head(names)
              /\ Tail(names) = <<>> ->
                [kind |-> "file", at |-> PathJoin(dir, Head(names))]
           [] OTHER -> NoEntry

\* what a path names: a directory, a file or nothing, and where
Stat(fs, path) ==
    IF path = <<>> THEN NoEntry ELSE ResolveFrom(fs, D_root, Components(path))

\* os.path.isdir
IsDir(fs, path) == Stat(fs, path).kind = "dir"

\* os.walk(top), top-down: one (folder, filenames) entry per directory,
\* the folder spelled as top is, at being where it is
RECURSIVE Walk(_, _, _)
RECURSIVE WalkAll(_, _, _, _)
Walk(fs, top, at) ==
    << [folder |-> top, filenames |-> fs[at].filenames] >>
      \o WalkAll(fs, top, at, fs[at].subfolders)
WalkAll(fs, top, at, subs) ==
    IF subs = <<>> THEN <<>>
    ELSE Walk(fs, PathJoin(top, Head(subs)), PathJoin(at, Head(subs)))
           \o WalkAll(fs, top, at, Tail(subs))

\* the keys of Mesh2Img.MESH_TYPES
MESH_TYPES == { <<".","s","t","l">>, <<".","p","l","y">> }

\* a _process_dir that compares the extension without lowering it
IsKnownMeshCaseSensitive(filename) == Splitext(filename).ext \in MESH_TYPES

\* the test _process_dir makes on each file name
IsKnownMesh(filename) == Lower(Splitext(filename).ext) \in MESH_TYPES

\* Mesh2Img._process_dir: the files it hands to _process_file, in order
RECURSIVE KeepMeshes(_, _)
KeepMeshes(folder, filenames) ==
    IF filenames = <<>> THEN <<>>
    ELSE (IF IsKnownMesh(Head(filenames))
          THEN << PathJoin(folder, Head(filenames)) >> ELSE <<>>)
         \o KeepMeshes(folder, Tail(filenames))

RECURSIVE ProcessDirEntries(_)
ProcessDirEntries(entries) ==
    IF entries = <<>> THEN <<>>
    ELSE KeepMeshes(Head(entries).folder, Head(entries).filenames)
         \o ProcessDirEntries(Tail(entries))

ProcessDir(fs, filepath) ==
    ProcessDirEntries(Walk(fs, filepath, Stat(fs, filepath).at))

\* the mesh files that hold no geometry, and the largest dimension of the
\* bounding box of the object a file is imported as
EmptyMeshes == { PathJoin(D_t, F_d_stl) }
MeshExtent == 3
Extent(filepath) == IF filepath \in EmptyMeshes THEN 0 ELSE MeshExtent
\* the edge of the Cube of the factory scene
CubeExtent == 2

(***************************************************************************)
(* The host scene: a set of objects, each with a name, a selection flag    *)
(* and the file it was imported from (empty for the objects of the         *)
(* factory scene).                                                         *)
(***************************************************************************)
O_Cube   == <<"C","u","b","e">>
O_Camera == <<"C","a","m","e","r","a">>
O_Light  == <<"L","i","g","h","t">>

Obj(name, src, selected) == [name |-> name, src |-> src, selected |-> selected]

FactoryScene == { Obj(O_Cube, <<>>, TRUE), Obj(O_Camera, <<>>, FALSE),
                  Obj(O_Light, <<>>, FALSE) }

Names(sc) == { o.name : o \in sc }
Imported(sc) == { o \in sc : o.src # <<>> }
\* context.selected_objects
Selected(sc) == { o \in sc : o.selected }
DeselectAll(sc) == { Obj(o.name, o.src, FALSE) : o \in sc }
\* every selected object deselected, then the one of that name selected
SelectOnly(sc, name) == { Obj(o.name, o.src, o.name = name) : o \in sc }

\* max(obj.dimensions): the extent of the mesh of an imported object, the
\* edge of the Cube, and 0 for the camera and the light, which have no
\* geometry
ObjectExtent(o) ==
    IF o.src # <<>> THEN Extent(o.src)
    ELSE IF o.name = O_Cube THEN CubeExtent ELSE 0

\* the name the host gives an imported object: the file's name without its
\* extension, with a numeric suffix when that name is taken
UniqueName(sc, base) ==
    IF base \notin Names(sc) THEN base
    ELSE LET free == { k \in 1..9 :
                         base \o <<".","0","0",DigitChars[k + 1]>> \notin Names(sc) }
             k == CHOOSE x \in free : \A y \in free : x <= y
         IN  base \o <<".","0","0",DigitChars[k + 1]>>

\* a delete_object_by_name that deselects everything and never has the
\* host delete the object
delete_object_by_name_kept(sc, name, ignore_errors, host_deletes) ==
    IF name \notin Names(sc)
    THEN [error |-> IF ignore_errors THEN "" ELSE "KeyError",
          scene |-> sc, deleted |-> FALSE]
    ELSE [error |-> "", scene |-> DeselectAll(sc), deleted |-> TRUE]

\* delete_object_by_name: look the object up (the KeyError of the lookup
\* is the only error ignore_errors covers), deselect everything, select the
\* object, and have the host delete the selection; host_deletes says
\* whether the host's delete operator succeeds
delete_object_by_name(sc, name, ignore_errors, host_deletes) ==
    IF name \notin Names(sc)
    THEN [error |-> IF ignore_errors THEN "" ELSE "KeyError",
          scene |-> sc, deleted |-> FALSE]
    ELSE IF ~ host_deletes
    THEN [error |-> "HostError", scene |-> SelectOnly(sc, name), deleted |-> FALSE]
    ELSE [error |-> "",
          scene |-> { o \in SelectOnly(sc, name) : ~ o.selected },
          deleted |-> TRUE]

\* what the host's importer does when open_mesh calls it: it raises; it
\* returns without an object added (the file holds no mesh it can read); it
\* adds the object selected and nothing else selected; or it adds the
\* object selected beside what was selected already
HostOutcomes == {"import_failed", "nothing_added", "imported", "imported_beside"}

\* the scene the importer leaves when it returns
ImportMesh(sc, filepath, outcome) ==
    LET name == UniqueName(sc, Basename(Splitext(filepath).root))
    IN  CASE outcome = "imported" ->
               DeselectAll(sc) \cup { Obj(name, filepath, TRUE) }
          [] outcome = "imported_beside" ->
               sc \cup { Obj(name, filepath, TRUE) }
          [] OTHER -> sc

\* scale_mesh on an object whose largest dimension is max_length: nothing
\* for an object without extent; otherwise the object is scaled by
\* 1 / (max_length / max_dim), a division by zero when max_dim is 0
scale_mesh(max_length, dim) ==
    IF max_length = 0 THEN [error |-> "", scaled |-> FALSE]
    ELSE IF dim = 0 THEN [error |-> "ZeroDivisionError", scaled |-> FALSE]
    ELSE [error |-> "", scaled |-> TRUE]

\* size_object: the object is selected as well as those that are already
\* (its dimensions, which are returned, are no state)
size_object(sc, name) ==
    { Obj(o.name, o.src, o.selected \/ o.name = name) : o \in sc }

(***************************************************************************)
(* The inputs of the model.                                                *)
(***************************************************************************)
SeqsUpTo(S, n) == UNION { [1..k -> S] : k \in 0..n }

P_m       == D_m
P_m_e     == D_m_e
P_m_b_txt == PathJoin(D_m, F_b_txt)
P_m_c_PLY == PathJoin(D_m, F_c_PLY)
P_t       == D_t
\* "./t/..//m/s/", another spelling of the directory m/s
P_m_s_dots == <<".","/","t","/",".",".","/","/","m","/","s","/">>
PathPool  == {P_m_s_dots, P_m_c_PLY}
\* further lists of paths
PathLists == { <<>>, <<P_m_c_PLY, P_m_c_PLY>>, <<P_m_c_PLY, P_m_b_txt>>,
               <<P_t, P_m_c_PLY>>, <<P_m_e, P_m_e>> }
\* lists of paths with the directory m, which has files and subfolders
WalkLists == { <<P_m>>, <<P_m_c_PLY, P_m>>, <<P_m, P_m_c_PLY>> }
\* the lists of paths whose batches are also run on a scene whose Cube or
\* Camera was deleted by hand before start()
PreparedLists == { <<>>, <<P_m_c_PLY>>, <<P_m_s_dots>>, <<P_m>>, <<P_m_e, P_m_e>> }

\* the paths of the model's batches that are directories
DirectoryPaths ==
    { p \in PathPool
             \cup UNION { { l[i] : i \in 1..Len(l) } : l \in PathLists \cup WalkLists } :
        IsDir(Directories, p) }

\* directory path -> the lists _process_dir can hand over for it, one for
\* each way the directories can be listed
ProcessDirResults ==
    [d \in DirectoryPaths |-> { ProcessDir(fs, d) : fs \in Listings }]

\* the max_dim a batch is constructed with: the default of 7, or 0
DefaultMaxDim == 7
MaxDims == {0, DefaultMaxDim}

\* a default template that names the height too,
\* "{filepath}_{width}x{height}.{ext}"
TemplateWithHeight ==
    <<"{">> \o N_filepath \o <<"}","_","{">> \o N_width \o <<"}","x","{">>
      \o N_height \o <<"}",".","{">> \o N_ext \o <<"}">>

\* Mesh2Img.DEFAULT_OUTPUT_TEMPLATE, "{filepath}_{width}.{ext}"
DEFAULT_OUTPUT_TEMPLATE ==
    <<"{">> \o N_filepath \o <<"}","_","{">> \o N_width \o <<"}",".","{">>
      \o N_ext \o <<"}">>
\* "{exec_time}/{basename}{src_ext}_{height}_{date}"
T_time ==
    <<"{">> \o N_exec_time \o <<"}","/","{">> \o N_basename \o <<"}","{">>
      \o N_src_ext \o <<"}","_","{">> \o N_height \o <<"}","_","{">>
      \o N_date \o <<"}">>
\* "{name}_{width}": name is no placeholder of get_output_path
T_unknown == <<"{","n","a","m","e","}","_","{">> \o N_width \o <<"}">>
\* "{{name}}_{width}": the doubled braces are literal braces
T_escaped == <<"{","{","n","a","m","e","}","}","_","{">> \o N_width \o <<"}">>

GIF == <<"g","i","f">>

D_400     == StrV(<<"4","0","0">>)
D_64      == StrV(<<"6","4">>)
D_0       == StrV(<<"0">>)
D_5       == IntV(5)
D_800_600 == ListV(<< StrV(<<"8","0","0">>), StrV(<<"6","0","0">>) >>)
D_800_400 == ListV(<< StrV(<<"8","0","0">>), StrV(<<"4","0","0">>) >>)
DimPool   == {D_400, D_64, D_0, D_5, D_800_600}

\* (image_format, output_template) of one batch; the empty image_format is
\* the None the constructor has by default
ArgPool == { [image_format |-> <<>>, output_template |-> DEFAULT_OUTPUT_TEMPLATE],
             [image_format |-> JPG,  output_template |-> T_time],
             [image_format |-> GIF,  output_template |-> DEFAULT_OUTPUT_TEMPLATE],
             [image_format |-> PNG,  output_template |-> T_unknown],
             [image_format |-> TIF,  output_template |-> T_escaped] }

\* Four families of batches: any paths of the pool with plain jobs
\* (800,600, then 800,400, then 800,600 again, ...), the lists that walk
\* the directory m with plain jobs, further paths with plain jobs and any
\* arguments, and any jobs on one explicitly named file.
PlainArgs == [image_format |-> <<>>, output_template |-> DEFAULT_OUTPUT_TEMPLATE]
PlainDims == { [i \in 1..n |-> IF i % 2 = 1 THEN D_800_600 ELSE D_800_400] :
                 n \in 0..MaxJobs }

\* what add_job_template is called with once the batch is constructed
AddPool == { [dimensions |-> D_800_600, image_format |-> JPG,
              output_template |-> DEFAULT_OUTPUT_TEMPLATE] }

(***************************************************************************)
(* The state.                                                              *)
(***************************************************************************)
VARIABLES
    pc,             \* "new", "ready", "running", "done" or "failed"
    raised_in,      \* the function that raised, when pc = "failed"
    error,          \* the exception raised, when pc = "failed"
    filepaths,      \* Mesh2Img.filepaths
    dimensions,     \* the dimensions given to __init__ and add_job_template
    job_templates,  \* Mesh2Img._job_templates
    execute_time,   \* Mesh2Img.execute_time
    max_dim,        \* Mesh2Img.max_dim
    clock,          \* the instant datetime.now() returns
    scene,          \* the host's objects (bpy.data.objects)
    camera,         \* "factory" until set_camera has placed the camera
    render,         \* the host's render settings (data.scenes['Scene'].render)
    path_index,     \* the number of entries of filepaths start() has taken
    pending,        \* the files of the current path still to process
    current,        \* the file _process_file is at, <<>> when at none
    mesh,           \* the name of the object open_mesh returned
    job_index,      \* the job template _process_file is at
    log,            \* the host operations performed, in order
    called_at       \* the length of log when start() was called, -1 before

vars == <<pc, raised_in, error, filepaths, dimensions, job_templates,
          execute_time, max_dim, clock, scene, camera, render, path_index,
          pending, current, mesh, job_index, log, called_at>>

batch_vars == <<filepaths, dimensions, job_templates, execute_time, max_dim>>
host_vars  == <<scene, camera, render, log>>
loop_vars  == <<path_index, pending, current, mesh, job_index>>

NoRender == [filepath |-> <<>>, resolution_x |-> 0, resolution_y |-> 0,
             file_format |-> <<>>]

\* a host operation: what is asked, for which source file, of which object
Op(op, file, object, jt, path, exec_time) ==
    [op |-> op, file |-> file, object |-> object, jt |-> jt, path |-> path,
     exec_time |-> exec_time]

Init ==
    /\ pc = "new"
    /\ raised_in = ""
    /\ error = ""
    /\ filepaths = <<>>
    /\ dimensions = <<>>
    /\ job_templates = <<>>
    /\ execute_time = <<>>
    /\ max_dim = DefaultMaxDim
    /\ clock = 59
    /\ scene = FactoryScene
    /\ camera = "factory"
    /\ render = NoRender
    /\ path_index = 0
    /\ pending = <<>>
    /\ current = <<>>
    /\ mesh = <<>>
    /\ job_index = 0
    /\ log = <<>>
    /\ called_at = -1

\* a handler that notes the exception and lets the loop go on
RaiseAndGoOn(where, e) ==
    /\ pc' = "running"
    /\ raised_in' = where
    /\ error' = e

\* an exception leaves every frame up to the caller of start(): no function
\* between catches it
Raise(where, e) ==
    /\ pc' = "failed"
    /\ raised_in' = where
    /\ error' = e

(***************************************************************************)
(* Mesh2Img.__init__ with its calls of add_job_template.                   *)
(***************************************************************************)
\* the job templates appended before dims runs out or one raises
RECURSIVE AddJobTemplates(_, _, _)
\* the job template jt built for the first of dims, then the others
AddBuilt(jt, dims, arg, acc) ==
    IF jt.error # "" THEN [error |-> jt.error, jobs |-> acc]
    ELSE AddJobTemplates(Tail(dims), arg, Append(acc, jt))
AddJobTemplates(dims, arg, acc) ==
    IF dims = <<>> THEN [error |-> "", jobs |-> acc]
    ELSE AddBuilt(JobTemplate(Head(dims), arg.output_template, arg.image_format),
                  dims, arg, acc)

New(paths, dims, arg, dim) ==
    /\ pc = "new"
    /\ max_dim' = dim
    /\ \E built \in { AddJobTemplates(dims, arg, <<>>) } :
           /\ filepaths' = paths
           /\ dimensions' = dims
           /\ execute_time' = Strftime(clock)
           /\ job_templates' = built.jobs
           /\ IF built.error # ""
              THEN Raise("JobTemplate", built.error)
              ELSE pc' = "ready" /\ UNCHANGED <<raised_in, error>>
    /\ UNCHANGED <<clock, host_vars, loop_vars, called_at>>

\* Mesh2Img.add_job_template, called on the constructed batch before
\* start()
AddJobTemplate(dims, output_template, image_format) ==
    /\ pc = "ready"
    /\ Len(job_templates) < MaxJobs
    /\ \E jt \in { JobTemplate(dims, output_template, image_format) } :
           IF jt.error # ""
           THEN /\ Raise("JobTemplate", jt.error)
                /\ UNCHANGED <<dimensions, job_templates>>
           ELSE /\ dimensions' = Append(dimensions, dims)
                /\ job_templates' = Append(job_templates, jt)
                /\ UNCHANGED <<pc, raised_in, error>>
    /\ UNCHANGED <<filepaths, execute_time, max_dim, clock, host_vars, loop_vars,
                   called_at>>

\* size_object, called on an object of the scene before start()
SizeObject(name) ==
    /\ pc = "ready"
    /\ name \in Names(scene)
    /\ scene' = size_object(scene, name)
    /\ UNCHANGED <<pc, raised_in, error, batch_vars, clock, camera, render,
                   log, loop_vars, called_at>>

\* delete_object_by_name, called on an object of the scene before start();
\* host_deletes says whether the host's delete operator succeeds.  When it
\* does not, its error leaves delete_object_by_name (line 408 is outside
\* the try) with the object still in the scene, the only one selected
DeleteObject(name, host_deletes) ==
    /\ pc = "ready"
    /\ name \in Names(scene)
    /\ LET d == delete_object_by_name(scene, name, FALSE, host_deletes)
       IN  /\ scene' = d.scene
           /\ IF d.error # ""
              THEN /\ Raise("delete_object_by_name", d.error)
                   /\ UNCHANGED log
              ELSE /\ log' = Append(log, Op("delete", <<>>, name, 0, <<>>, <<>>))
                   /\ UNCHANGED <<pc, raised_in, error>>
    /\ UNCHANGED <<batch_vars, clock, camera, render, loop_vars, called_at>>

(***************************************************************************)
(* Mesh2Img.start: the checks and the preparation of the scene.            *)
(***************************************************************************)
\* delete_object_by_name("Cube", ignore_errors=True), then set_camera: the
\* error of the host's delete, or a KeyError of set_camera when the scene
\* has no object named Camera
Prepare(sc, host_deletes) ==
    LET d == delete_object_by_name(sc, O_Cube, TRUE, host_deletes)
    IN  [scene |-> d.scene,
         ops   |-> IF d.deleted
                   THEN << Op("delete", <<>>, O_Cube, 0, <<>>, <<>>) >>
                   ELSE <<>>,
         raised_in |-> IF d.error # "" THEN "delete_object_by_name"
                       ELSE "set_camera",
         error |-> IF d.error # "" THEN d.error
                   ELSE IF O_Camera \in Names(d.scene) THEN "" ELSE "KeyError"]

\* a start() that forgets to look at the job templates
StartChecksPathsOnly == IF filepaths = <<>> THEN "ValueError" ELSE ""

\* a start() that also refuses paths that expand to no source file
StartChecksSourceFiles ==
    IF \/ job_templates = <<>>
       \/ \A i \in 1..Len(filepaths) :
             IsDir(Directories, filepaths[i])
             /\ ProcessDirResults[filepaths[i]] = { <<>> }
    THEN "ValueError" ELSE ""

StartChecks == IF filepaths = <<>> \/ job_templates = <<>> THEN "ValueError" ELSE ""

\* host_deletes says whether the host's delete operator succeeds on the
\* Cube
Start(host_deletes) ==
    /\ pc = "ready"
    /\ called_at' = Len(log)
    /\ IF StartChecks # ""
       THEN /\ Raise("start", StartChecks)
            /\ UNCHANGED <<host_vars, loop_vars>>
       ELSE LET p == Prepare(scene, host_deletes)
            IN  /\ scene' = p.scene
                /\ IF p.error # ""
                   THEN /\ Raise(p.raised_in, p.error)
                        /\ log' = log \o p.ops
                        /\ UNCHANGED <<camera, path_index>>
                   ELSE /\ pc' = "running"
                        /\ camera' = "set"
                        /\ log' = log \o p.ops
                                      \o << Op("set_camera", <<>>, O_Camera, 0,
                                                <<>>, <<>>) >>
                        /\ path_index' = 0
                        /\ UNCHANGED <<raised_in, error>>
                /\ UNCHANGED <<render, pending, current, mesh, job_index>>
    /\ UNCHANGED <<batch_vars, clock>>

\* a start() that skips the paths that are no directories
SourceFilesDirsOnly(filepath) ==
    IF IsDir(Directories, filepath) THEN ProcessDirResults[filepath]
    ELSE { <<>> }

\* the lists of files start() can hand to _process_file for one entry of
\* filepaths: for a directory one list for each order the operating system
\* can list the directories in
SourceFiles(filepath) ==
    IF IsDir(Directories, filepath) THEN ProcessDirResults[filepath]
    ELSE { <<filepath>> }

\* the loop of start() takes the next path
NextPath ==
    /\ pc = "running" /\ current = <<>> /\ pending = <<>>
    /\ path_index < Len(filepaths)
    /\ path_index' = path_index + 1
    /\ pending' \in SourceFiles(filepaths[path_index + 1])
    /\ UNCHANGED <<pc, raised_in, error, batch_vars, clock, host_vars,
                   current, mesh, job_index, called_at>>

\* the loop of start() ends and start() returns
Finish ==
    /\ pc = "running" /\ current = <<>> /\ pending = <<>>
    /\ path_index = Len(filepaths)
    /\ pc' = "done"
    /\ UNCHANGED <<raised_in, error, batch_vars, clock, host_vars, loop_vars,
                   called_at>>

(***************************************************************************)
(* Mesh2Img._process_file.                                                 *)
(***************************************************************************)
\* an open_mesh that looks the extension up without lowering it
HasImporterCaseSensitive(filepath) == Splitext(filepath).ext \in MESH_TYPES

\* open_mesh finds the importer by the lowered extension
HasImporter(filepath) == Lower(Splitext(filepath).ext) \in MESH_TYPES

\* the start of _process_file: open_mesh, then scale_mesh.  open_mesh has
\* the host import the file, takes the first selected object for the mesh
\* (which of the selected objects is the first is the host's choice, and
\* there is none when nothing is selected), leaves it the only selected
\* object and has the host set its origin; centred says whether that
\* succeeds
OpenMesh(outcome, centred) ==
    /\ pc = "running" /\ current = <<>> /\ pending # <<>>
    /\ LET filepath == Head(pending)
       IN  IF ~ HasImporter(filepath)
           THEN /\ Raise("open_mesh", "KeyError")
                /\ UNCHANGED <<host_vars, loop_vars>>
           ELSE IF outcome = "import_failed"
           THEN /\ Raise("open_mesh", "HostError")
                /\ UNCHANGED <<host_vars, loop_vars>>
           ELSE LET after  == ImportMesh(scene, filepath, outcome)
                    import == Op("import", filepath, <<>>, 0, <<>>, <<>>)
                IN  /\ current' = filepath
                    /\ pending' = Tail(pending)
                    /\ UNCHANGED <<camera, render, path_index>>
                    /\ IF Selected(after) = {}
                       THEN /\ Raise("open_mesh", "IndexError")
                            /\ scene' = after
                            /\ log' = Append(log, import)
                            /\ UNCHANGED <<mesh, job_index>>
                       ELSE \E m \in Selected(after) :
                            LET s     == scale_mesh(ObjectExtent(m), max_dim)
                                scale == Op("scale", filepath, m.name, 0, <<>>, <<>>)
                            IN  /\ scene' = SelectOnly(after, m.name)
                                /\ IF ~ centred
                                   THEN /\ Raise("open_mesh", "HostError")
                                        /\ log' = Append(log, import)
                                        /\ UNCHANGED <<mesh, job_index>>
                                   ELSE IF s.error # ""
                                   THEN /\ Raise("scale_mesh", s.error)
                                        /\ mesh' = m.name
                                        /\ log' = Append(log, import)
                                        /\ UNCHANGED job_index
                                   ELSE /\ mesh' = m.name
                                        /\ job_index' = 1
                                        /\ log' = IF s.scaled
                                                  THEN log \o <<import, scale>>
                                                  ELSE Append(log, import)
                                        /\ UNCHANGED <<pc, raised_in, error>>
    /\ UNCHANGED <<batch_vars, clock, called_at>>

\* Mesh2Img.save_image up to the render: the settings it writes and the
\* error it raises for a format that is no key of IMAGE_FORMATS
SaveSettings(filepath, jt) ==
    [error  |-> IF jt.image_format \in IMAGE_FORMATS THEN "" ELSE "ValueError",
     render |-> [filepath     |-> filepath,
                 resolution_x |-> jt.width,
                 resolution_y |-> jt.height,
                 file_format  |-> IF jt.image_format \in IMAGE_FORMATS
                                  THEN jt.image_format ELSE render.file_format]]

\* a _process_file that deletes the mesh once the first job template is
\* rendered
JobsDoneAfterFirst == job_index > 1

\* `for jt in self._job_templates` has no job template left
JobsDone == job_index > Len(job_templates)

\* one turn of the loop over the job templates: get_output_path, then
\* save_image; rendered says whether the host's render succeeds
SaveJob(rendered) ==
    /\ pc = "running" /\ current # <<>>
    /\ ~ JobsDone
    /\ \E out \in { get_output_path(job_templates[job_index], current,
                                    execute_time, clock) } :
         IF out.error # ""
         THEN /\ Raise("get_output_path", out.error)
              /\ UNCHANGED <<render, log, job_index>>
         ELSE \E set \in { SaveSettings(out.path, job_templates[job_index]) } :
              /\ render' = set.render
              /\ IF set.error # ""
                 THEN /\ Raise("save_image", set.error)
                      /\ UNCHANGED <<log, job_index>>
                 ELSE IF ~ rendered
                 THEN /\ Raise("save_image", "HostError")
                      /\ UNCHANGED <<log, job_index>>
                 ELSE /\ log' = Append(log, Op("render", current, <<>>, job_index,
                                               out.path, execute_time))
                      /\ job_index' = job_index + 1
                      /\ UNCHANGED <<pc, raised_in, error>>
    /\ UNCHANGED <<batch_vars, clock, scene, camera, path_index, pending,
                   current, mesh, called_at>>

\* the end of _process_file: _delete_mesh, which deletes the object of the
\* name of the mesh; deleted says whether the host's delete operator
\* succeeds
DeleteMesh(deleted) ==
    /\ pc = "running" /\ current # <<>>
    /\ JobsDone
    /\ LET d == delete_object_by_name(scene, mesh, FALSE, deleted)
       IN  IF d.error # ""
           THEN /\ Raise("delete_object_by_name", d.error)
                /\ scene' = d.scene
                /\ UNCHANGED <<camera, render, log, loop_vars>>
           ELSE /\ scene' = d.scene
                /\ log' = Append(log, Op("delete", current, mesh, 0, <<>>, <<>>))
                /\ current' = <<>>
                /\ mesh' = <<>>
                /\ job_index' = 0
                /\ UNCHANGED <<pc, raised_in, error, camera, render,
                               path_index, pending>>
    /\ UNCHANGED <<batch_vars, clock, called_at>>

\* a second passes
Tick ==
    /\ pc \in {"ready", "running"}
    /\ clock < 59 + MaxClock
    /\ clock' = clock + 1
    /\ UNCHANGED <<pc, raised_in, error, batch_vars, host_vars, loop_vars,
                   called_at>>

Next ==
    \/ /\ pc = "new"
       /\ \E paths \in SeqsUpTo(PathPool, MaxPaths), dims \in PlainDims :
             New(paths, dims, PlainArgs, DefaultMaxDim)
    \/ /\ pc = "new"
       /\ \E paths \in WalkLists, dims \in PlainDims :
             New(paths, dims, PlainArgs, DefaultMaxDim)
    \/ /\ pc = "new"
       /\ \E paths \in PathLists, dims \in PlainDims, arg \in ArgPool,
             dim \in MaxDims :
             New(paths, dims, arg, dim)
    \/ /\ pc = "new"
       /\ \E dims \in SeqsUpTo(DimPool, MaxJobs), arg \in ArgPool :
             New(<<P_m_c_PLY>>, dims, arg, DefaultMaxDim)
    \/ \E a \in AddPool :
          AddJobTemplate(a.dimensions, a.output_template, a.image_format)
    \/ SizeObject(O_Camera)
    \/ /\ filepaths \in PreparedLists
       /\ \E name \in {O_Cube, O_Camera}, host_deletes \in BOOLEAN :
             DeleteObject(name, host_deletes)
    \/ \E host_deletes \in BOOLEAN : Start(host_deletes)
    \/ NextPath
    \/ Finish
    \/ \E outcome \in HostOutcomes, centred \in BOOLEAN : OpenMesh(outcome, centred)
    \/ \E rendered \in BOOLEAN : SaveJob(rendered)
    \/ \E deleted \in BOOLEAN : DeleteMesh(deleted)
    \/ Tick

Spec == Init /\ [][Next]_vars

(***************************************************************************)
(* Definitions the properties are stated with.                             *)
(***************************************************************************)
Range(s) == { s[i] : i \in 1..Len(s) }
IsPrefix(s, t) ==
    \A a \in {s}, b \in {t} : Len(a) <= Len(b) /\ SubSeq(b, 1, Len(a)) = a

IsRender(o) == o.op = "render"
IsImport(o) == o.op = "import"
Renders == SelectSeq(log, IsRender)
Imports == SelectSeq(log, IsImport)

\* start() has been called
Started == called_at >= 0

\* the integer a dimension input denotes when it is a single positive
\* integer or the decimal string of one, and 0 otherwise
SingleInteger(d) ==
    CASE d.t = "int" /\ d.n > 0 -> d.n
      [] d.t = "str" /\ d.s # <<>> /\ (\A i \in 1..Len(d.s) : IsDigit(d.s[i])) ->
           DigitsVal(d.s)
      [] OTHER -> 0

\* C1: every job template built from a valid single-integer dimension input
\* has width = height = that integer.
C1_SingleIntegerIsSquare ==
    \A i \in 1..Len(job_templates) :
        SingleInteger(dimensions[i]) > 0 =>
            /\ job_templates[i].width = SingleInteger(dimensions[i])
            /\ job_templates[i].height = SingleInteger(dimensions[i])

\* C2: every job template of a batch has a positive width, a positive height
\* and an image format among bmp, jpg, png and tif.
C2_JobTemplatesAreValid ==
    \A i \in 1..Len(job_templates) :
        /\ job_templates[i].width > 0
        /\ job_templates[i].height > 0
        /\ job_templates[i].image_format \in IMAGE_FORMATS

\* the step is a call of start(): the batch is constructed and the step
\* starts the run or fails, and neither in the making of a job template
\* nor in a delete_object_by_name called before start()
StartCalled ==
    /\ pc = "ready"
    /\ pc' \in {"running", "failed"}
    /\ raised_in' # "JobTemplate"
    /\ called_at = -1 /\ called_at' = Len(log)

\* C3: start() on a batch with no paths or no job templates fails with a
\* ValueError and leaves the host as it was: nothing deleted (the Cube is
\* still there), nothing selected or deselected, the camera not set, no
\* import, scale or render.
C3_EmptyBatchFailsUntouched ==
    [][ (StartCalled /\ (filepaths = <<>> \/ job_templates = <<>>))
        => /\ pc' = "failed" /\ raised_in' = "start" /\ error' = "ValueError"
           /\ UNCHANGED host_vars ]_vars

C3_Witness ==
    /\ pc = "failed" /\ raised_in = "start" /\ error = "ValueError"
    /\ filepaths # <<>> /\ job_templates = <<>>
    /\ scene = size_object(FactoryScene, O_Camera)
    /\ camera = "factory" /\ render = NoRender /\ log = <<>>

\* the directory x is the directory dir or anywhere below it
IsBelow(dir, x) == x = dir \/ dir = D_root \/ IsPrefix(dir \o <<"/">>, x)

\* the path from the directory dir down to x, with the slash after it
Down(dir, x) ==
    IF x = dir THEN <<>>
    ELSE SubSeq(x, IF dir = D_root THEN 1 ELSE Len(dir) + 2, Len(x)) \o <<"/">>

\* the files anywhere below the directory a path names, each with the
\* folder it is in, spelled from the path on
FilesBelow(fs, path) ==
    LET dir == Stat(fs, path).at
        pre == IF path[Len(path)] = "/" THEN path ELSE path \o <<"/">>
    IN  UNION { { [folder |-> pre \o Down(dir, x), filename |-> f] :
                    f \in Range(fs[x].filenames) } :
                x \in { y \in DOMAIN fs : IsBelow(dir, y) } }

\* the name ends in .stl or .ply, in any case, after a stem that is not
\* only dots
HasMeshExtension(filename) ==
    \E k \in 2..Len(filename) :
        /\ filename[k] = "."
        /\ \A m \in (k+1)..Len(filename) : filename[m] # "."
        /\ \E m \in 1..(k-1) : filename[m] # "."
        /\ Lower(SubSeq(filename, k + 1, Len(filename)))
              \in { <<"s","t","l">>, <<"p","l","y">> }

MeshFilesBelow(fs, dir) ==
    { e.folder \o e.filename :
        e \in { x \in FilesBelow(fs, dir) : HasMeshExtension(x.filename) } }

\* directory path -> the mesh files anywhere below it
MeshFilesOf == [d \in DirectoryPaths |-> MeshFilesBelow(Directories, d)]

\* the paths the batches are given
InputPaths ==
    PathPool
      \cup UNION { { l[i] : i \in 1..Len(l) } : l \in PathLists \cup WalkLists }

\* input path -> the path names a directory
NamesDirectory == [p \in InputPaths |-> p \in DirectoryPaths]

\* input path -> the source files it stands for: an explicitly named file
\* for itself, a directory for the mesh files anywhere below it
SourceFilesOf ==
    [p \in InputPaths |-> IF NamesDirectory[p] THEN MeshFilesOf[p] ELSE {p}]
SourceFileSet(path) == SourceFilesOf[path]

\* the number of source files of a list of paths, one for each occurrence
RECURSIVE SourceFileCount(_)
SourceFileCount(paths) ==
    IF paths = <<>> THEN 0
    ELSE Cardinality(SourceFileSet(Head(paths))) + SourceFileCount(Tail(paths))

\* files lists the source files of the paths in the order of the paths,
\* those of one directory in any order
RECURSIVE IsWorklist(_, _)
IsWorklist(files, paths) ==
    IF paths = <<>> THEN files = <<>>
    ELSE \A expected \in { SourceFileSet(Head(paths)) } :
         \A n \in { Cardinality(expected) } :
             /\ n <= Len(files)
             /\ Range(SubSeq(files, 1, n)) = expected
             /\ IsWorklist(SubSeq(files, n + 1, Len(files)), Tail(paths))

\* the files the run has handed to _process_file or is about to: those it
\* has imported, then those of the current path still to process
RECURSIVE FilesOf(_, _, _)
FilesOf(ops, i, done) ==
    IF i > Len(ops) THEN done
    ELSE FilesOf(ops, i + 1,
                 IF IsImport(ops[i]) THEN Append(done, ops[i].file) ELSE done)
Handed == FilesOf(log, 1, <<>>) \o pending

\* files x jobs, the files outermost: <<file, index of the job template>>
RECURSIVE CrossProduct(_, _)
CrossProduct(files, n) ==
    IF files = <<>> THEN <<>>
    ELSE [j \in 1..n |-> <<Head(files), j>>] \o CrossProduct(Tail(files), n)

PairOf(o) == <<o.file, o.jt>>
RECURSIVE PairsOf(_, _, _)
PairsOf(ops, i, done) ==
    IF i > Len(ops) THEN done
    ELSE PairsOf(ops, i + 1,
                 IF IsRender(ops[i]) THEN Append(done, PairOf(ops[i])) ELSE done)
RenderedPairs == PairsOf(log, 1, <<>>)

\* C4: the files of a run are the source files of the paths it has taken,
\* in the order of the input paths (one entry per occurrence, the files of
\* one directory in the order the walk finds them); its renders are made
\* in the order of the cross product of these files and the job templates
\* (in the order they were added); and a run that ends without error has
\* made exactly all of them.
C4_RendersAreCrossProduct ==
    Started =>
        \A files \in { Handed } :
            /\ IsWorklist(files, SubSeq(filepaths, 1, path_index))
            /\ \A expected \in { CrossProduct(files, Len(job_templates)) },
                  rendered \in { RenderedPairs } :
                   /\ IsPrefix(rendered, expected)
                   /\ pc = "done"
                      => /\ rendered = expected
                         /\ Len(rendered)
                              = SourceFileCount(filepaths) * Len(job_templates)

C4_Witness ==
    /\ pc = "done"
    /\ filepaths = <<P_m_c_PLY, P_m>>
    /\ Len(job_templates) = 2
    /\ Len(Renders) = 8
    /\ Renders[1].file = P_m_c_PLY /\ Renders[2].jt = 2

\* C5: when start() takes a path that is a directory, the files it goes on
\* to process are exactly the files anywhere below it whose extension is
\* .stl or .ply in any case, each once.
C5_DirectoryYieldsItsMeshFiles ==
    [][ (path_index' = path_index + 1
           /\ IsDir(Directories, filepaths[path_index']))
        => /\ Range(pending') = MeshFilesOf[filepaths[path_index']]
           /\ Len(pending') = Cardinality(Range(pending')) ]_vars

C5_Witness ==
    /\ pc = "running" /\ path_index = 1 /\ filepaths[1] = P_m /\ current = <<>>
    /\ Range(pending) = { PathJoin(D_m, F_a_stl), PathJoin(D_m, F_c_PLY),
                          PathJoin(D_m_s, F_d_ply) }
    /\ Head(pending) = PathJoin(D_m, F_c_PLY)

\* the run is at an input path that is no directory: a file named
\* explicitly
AtExplicitFile == path_index >= 1 /\ ~ NamesDirectory[filepaths[path_index]]

\* C6 as claimed: a file named explicitly is handed to the import whatever
\* its extension.  open_mesh raises on it before the host has imported it
\* only when the importer of the host raised, never for its extension, and
\* a run that ends without error has imported every explicitly named file
\* and rendered it once per job template.
C6_ExplicitFileAlwaysImported ==
    /\ (AtExplicitFile /\ pc = "failed" /\ raised_in = "open_mesh"
          /\ current = <<>>)
       => /\ pending = <<filepaths[path_index]>>
          /\ error = "HostError"
    /\ pc = "done" =>
          \A i \in 1..Len(filepaths) :
              ~ NamesDirectory[filepaths[i]] =>
                  /\ filepaths[i] \in { Imports[k].file : k \in 1..Len(Imports) }
                  /\ \A j \in 1..Len(job_templates) :
                        <<filepaths[i], j>> \in Range(RenderedPairs)

ImportedFiles == { Imports[i].file : i \in 1..Len(Imports) }

\* C6 as amended: a path that is no directory is handed to _process_file
\* whatever its extension; it is imported when its extension is .stl or
\* .ply in any case, and otherwise open_mesh raises a KeyError before it
\* asks anything of the host for that file, which ends the run.
C6_ExplicitFileImportedIfMesh ==
    /\ (pc = "running" /\ path_index >= 1
          /\ ~ NamesDirectory[filepaths[path_index]])
       => \/ pending = <<filepaths[path_index]>> /\ current = <<>>
          \/ pending = <<>> /\ current \in {<<>>, filepaths[path_index]}
    /\ (pc = "failed" /\ raised_in = "open_mesh" /\ error = "KeyError")
       => /\ ~ HasMeshExtension(Basename(Head(pending)))
          /\ Head(pending) = filepaths[path_index]
          /\ ~ NamesDirectory[filepaths[path_index]]
          /\ Head(pending) \notin ImportedFiles
    /\ \A f \in ImportedFiles : HasMeshExtension(Basename(f))
    /\ pc = "done" =>
          \A i \in 1..Len(filepaths) :
              ~ NamesDirectory[filepaths[i]] =>
                  /\ filepaths[i] \in ImportedFiles
                  /\ \A j \in 1..Len(job_templates) :
                        <<filepaths[i], j>> \in Range(RenderedPairs)

C6_Witness ==
    /\ pc = "failed" /\ raised_in = "open_mesh" /\ error = "KeyError"
    /\ Head(pending) = P_m_b_txt
    /\ P_m_c_PLY \in ImportedFiles

\* the placeholder names get_output_path knows
KnownPlaceholders == {N_basename, N_date, N_exec_time, N_ext, N_filepath,
                      N_height, N_src_ext, N_width}

\* the number of consecutive opening braces that end at position i
BraceRun(t, i) ==
    LET before == { k \in 1..i : t[k] # "{" }
    IN  IF before = {} THEN i
        ELSE i - (CHOOSE k \in before : \A m \in before : m <= k)

\* the names a template references: the text between an opening brace that
\* is not one of a doubled pair and the closing brace that is the next
\* brace after it
ReferencedNames(t) ==
    LET Closing(i) ==
            { j \in (i+1)..Len(t) :
                t[j] = "}" /\ \A m \in (i+1)..(j-1) : t[m] \notin {"{", "}"} }
        opening == { i \in 1..Len(t) :
                       /\ t[i] = "{"
                       /\ BraceRun(t, i) % 2 = 1
                       /\ (i = Len(t) \/ t[i+1] # "{")
                       /\ Closing(i) # {} }
    IN  { SubSeq(t, i + 1, (CHOOSE j \in Closing(i) : TRUE) - 1) : i \in opening }

\* the templates of the model's batches, and which of them reference a
\* name that is no placeholder
Templates ==
    { a.output_template : a \in ArgPool } \cup { a.output_template : a \in AddPool }
      \cup { PlainArgs.output_template }
UnknownIn == [t \in Templates |-> ~ (ReferencedNames(t) \subseteq KnownPlaceholders)]

HasUnknownPlaceholder(t) ==
    IF t \in Templates THEN UnknownIn[t]
    ELSE ~ (ReferencedNames(t) \subseteq KnownPlaceholders)

AtJob == pc = "running" /\ current # <<>> /\ job_index <= Len(job_templates)

\* C7: a template that references a name other than the eight placeholders
\* never resolves: get_output_path raises for it, and no render is made for
\* a job template with such a template.  (The log only grows, so what is
\* stated of its last entry in every state holds of each of its entries.)
C7_UnknownPlaceholderRaises ==
    /\ \A n \in {Len(log)} \ {0} :
          log[n].op = "render"
            => ~ HasUnknownPlaceholder(job_templates[log[n].jt].output_template)
    /\ (AtJob /\ HasUnknownPlaceholder(job_templates[job_index].output_template))
       => get_output_path(job_templates[job_index], current, execute_time,
                          clock).error # ""
    /\ (pc = "failed" /\ raised_in = "get_output_path" /\ error = "KeyError")
       => HasUnknownPlaceholder(job_templates[job_index].output_template)

C7_Witness ==
    /\ pc = "failed" /\ raised_in = "get_output_path" /\ error = "KeyError"
    /\ job_templates[job_index].output_template = T_unknown
    /\ current = P_m_c_PLY

\* C8: every resolution of a run is given the batch's one exec_time, which
\* is what the exec_time placeholder becomes whatever the clock shows, while
\* the date placeholder becomes the time of the resolution; resolving at
\* another instant changes the date fields and nothing else.
C8_ExecTimeFixedDateFresh ==
    /\ \A i \in 1..Len(log) :
          IsRender(log[i]) => log[i].exec_time = execute_time
    /\ AtJob =>
         \A at \in { [t \in 59..(59 + MaxClock) |->
                        get_output_path(job_templates[job_index], current,
                                        execute_time, t)] } :
         \A r \in { at[clock] } :
             r.error = "" =>
               /\ \A k \in 1..Len(r.pieces) :
                     /\ r.pieces[k].field = N_exec_time
                          => r.pieces[k].text = execute_time
                     /\ r.pieces[k].field = N_date
                          => r.pieces[k].text = Strftime(clock)
               /\ \A t \in 59..(59 + MaxClock) :
                     \A q \in { at[t] } :
                         /\ q.error = ""
                         /\ Len(q.pieces) = Len(r.pieces)
                         /\ \A k \in 1..Len(r.pieces) :
                               q.pieces[k] # r.pieces[k]
                                 => r.pieces[k].field = N_date

C8_Witness ==
    \E i, j \in 1..Len(Renders) :
        /\ i < j
        /\ Renders[i].file = Renders[j].file /\ Renders[i].jt = Renders[j].jt
        /\ Renders[i].exec_time = Renders[j].exec_time
        /\ Renders[i].path # Renders[j].path
        /\ execute_time # Strftime(clock)

\* C9 as claimed: start() does not run a batch whose paths expand to no
\* source file.
C9_NoSourceFilesFails ==
    pc \in {"running", "done"} => SourceFileCount(filepaths) # 0

\* C9 as amended: start() fails with a ValueError when the list of input
\* paths (or of job templates) is empty, and only then; when the paths are
\* given but expand to no source file, start() prepares the scene and
\* returns without error, having imported and rendered nothing.  It fails
\* then only in the preparation of the scene: when the host fails to delete
\* the Cube, which leaves the Cube in the scene and the camera unset with
\* nothing asked of the host, or when the scene has no object named
\* Camera, which is the KeyError of set_camera.
C9_EmptyPathListFails ==
    /\ filepaths = <<>> => pc \notin {"running", "done"}
    /\ (pc = "failed" /\ raised_in = "start")
       => /\ error = "ValueError"
          /\ (filepaths = <<>> \/ job_templates = <<>>)
    /\ (Started /\ filepaths # <<>> /\ job_templates # <<>>
          /\ SourceFileCount(filepaths) = 0)
       => \/ /\ pc \in {"running", "done"}
             /\ Imports = <<>> /\ Renders = <<>>
             /\ camera = "set" /\ O_Cube \notin Names(scene)
          \/ /\ pc = "failed" /\ raised_in = "delete_object_by_name"
             /\ error = "HostError"
             /\ Len(log) = called_at /\ camera = "factory"
             /\ O_Cube \in Names(scene)
          \/ /\ pc = "failed" /\ raised_in = "set_camera"
             /\ error = "KeyError"
             /\ O_Camera \notin Names(scene) /\ O_Cube \notin Names(scene)
             /\ camera = "factory"
             /\ Imports = <<>> /\ Renders = <<>>

C9_Witness ==
    /\ pc = "done" /\ filepaths = <<P_m_e, P_m_e>> /\ job_templates # <<>>
    /\ SourceFileCount(filepaths) = 0
    /\ Len(log) = 2

\* the deletions of objects that source files were the current file of
IsMeshDelete(o) == o.op = "delete" /\ o.file # <<>>
MeshDeletes == SelectSeq(log, IsMeshDelete)

\* the position of the last import in the log, 0 when there is none
LastImport(upto) ==
    LET at == { i \in 1..upto : log[i].op = "import" }
    IN  IF at = {} THEN 0 ELSE CHOOSE i \in at : \A k \in at : k <= i

\* start() found the Cube in the scene and had the host delete it, which
\* leaves no object selected
CubeDeletedByStart ==
    /\ Started /\ Len(log) > called_at
    /\ log[called_at + 1] = Op("delete", <<>>, O_Cube, 0, <<>>, <<>>)

\* the scene holds at most one imported mesh; while a file is being
\* rendered it holds exactly the mesh imported from that file; between
\* files and after the run it holds none; and in the order of the host
\* operations an import is made only when the object of the import before
\* it has been deleted, and a render only after the import of its file,
\* with nothing but the scaling and renders of that file between.  (The
\* log only grows, so what is stated of its last entry in every state
\* holds of each of its entries.)
OneMeshAtATime ==
    /\ Cardinality(Imported(scene)) <= 1
    /\ (pc = "running" /\ current # <<>>)
       => Imported(scene) = { Obj(mesh, current, TRUE) }
    /\ ((pc = "running" /\ current = <<>>) \/ pc = "done")
       => Imported(scene) = {}
    /\ \A n \in {Len(log)} \ {0} :
          LET i == LastImport(n - 1)
          IN  /\ (log[n].op = "import" /\ i > 0)
                 => \E k \in (i+1)..(n-1) :
                       log[k].op = "delete" /\ log[k].file = log[i].file
              /\ log[n].op = "render"
                 => /\ i > 0 /\ log[i].file = log[n].file
                    /\ \A k \in (i+1)..(n-1) : log[k].op \in {"scale", "render"}

\* the host operations of one source file with n job templates, the
\* scaling left out, as <<operation, file, index of the job template>>
FileOps(f, n) ==
    << <<"import", f, 0>> >>
      \o [j \in 1..n |-> <<"render", f, j>>]
      \o << <<"delete", f, 0>> >>

RECURSIVE ExpectedOps(_, _)
ExpectedOps(files, n) ==
    IF files = <<>> THEN <<>>
    ELSE FileOps(Head(files), n) \o ExpectedOps(Tail(files), n)

\* what start() asks of the host before it takes the first path: to
\* delete the Cube, when the scene has one, and to set the camera
Preparation ==
    (IF Len(log) > called_at /\ log[called_at + 1].op = "delete"
          /\ log[called_at + 1].object = O_Cube
     THEN << <<"delete", <<>>, 0>> >> ELSE <<>>)
      \o << <<"set_camera", <<>>, 0>> >>

\* the host operations of the run so far (those since start() was
\* called), the scaling left out
RECURSIVE OpsOf(_, _, _)
OpsOf(ops, i, done) ==
    IF i > Len(ops) THEN done
    ELSE OpsOf(ops, i + 1,
               IF ops[i].op = "scale" THEN done
               ELSE Append(done, <<ops[i].op, ops[i].file, ops[i].jt>>))
LoggedOps == OpsOf(log, called_at + 1, <<>>)

WorkItems == SourceFileCount(filepaths) * Len(job_templates)

\* C11 as claimed: a run that ends without error has imported a mesh and
\* deleted a mesh once per work item (source file, job template).
C11_ImportPerWorkItem ==
    pc = "done" => Len(Imports) = WorkItems /\ Len(MeshDeletes) = WorkItems

\* C11 as amended: each source file is processed by one sequence import,
\* scale (at once after the import, and not for an object without extent),
\* then one output path resolution and render per job template, then
\* delete, in that order and in the order the files are handed over; the
\* host operations of a run are a prefix of that, and a run that ends
\* without error has made all of them, so its imports and its deletes both
\* number the source files and its renders number the work items.
C11_ImportPerSourceFile ==
    Started =>
        \A expected \in { Preparation \o ExpectedOps(Handed, Len(job_templates)) } :
            /\ \A n \in {Len(log)} \ {0} :
                  log[n].op = "scale"
                    => /\ n > 1 /\ log[n-1].op = "import"
                       /\ log[n-1].file = log[n].file
                       /\ log[n].object = mesh
                       /\ \E o \in scene : o.name = mesh /\ ObjectExtent(o) # 0
            /\ IsPrefix(LoggedOps, expected)
            /\ pc = "done" =>
                  /\ LoggedOps = expected
                  /\ Len(Imports) = SourceFileCount(filepaths)
                  /\ Len(MeshDeletes) = SourceFileCount(filepaths)
                  /\ Len(Renders) = WorkItems

C11_Witness ==
    /\ pc = "done"
    /\ filepaths = <<P_m_c_PLY, P_m_c_PLY>> /\ Len(job_templates) = 2
    /\ Len(Imports) = 2 /\ Len(MeshDeletes) = 2 /\ Len(Renders) = 4
    /\ WorkItems = 4

\* the functions _process_file calls for a work item
WorkItemSteps == {"open_mesh", "scale_mesh", "get_output_path", "save_image",
                  "delete_object_by_name"}

\* the step asks nothing of the host that the host does, and leaves the
\* run where it is
NothingDone ==
    /\ log' = log /\ scene' = scene /\ camera' = camera
    /\ UNCHANGED loop_vars

\* the step imports the file it is handed, and nothing else
OnlyImported ==
    /\ pending # <<>>
    /\ log' = Append(log, Op("import", Head(pending), <<>>, 0, <<>>, <<>>))
    /\ Imported(scene') = Imported(scene) \cup { o \in scene' : o.src = Head(pending) }
    /\ camera' = camera
    /\ current' = Head(pending) /\ pending' = Tail(pending)
    /\ UNCHANGED <<path_index, job_index>>

\* C12: every error is fatal to the batch.  A run has an error exactly when
\* it has failed, that is, when the exception has left start(); the step of
\* a work item that fails moves the run to no other path or job template
\* and asks nothing of the host after the failure (what fails after the
\* import of a file, the centring or the scaling of the mesh, leaves the
\* import done and nothing else); and once a run has failed nothing
\* happens any more: no step is retried and no host operation is made for
\* the failed or any later source file or job template.
C12_ErrorsAreFatal ==
    [][ /\ (error' # "" <=> pc' = "failed")
        /\ (pc = "running" /\ error' # "")
           => /\ raised_in' \in WorkItemSteps
              /\ \/ NothingDone
                 \/ raised_in' \in {"open_mesh", "scale_mesh"} /\ OnlyImported
        /\ error # ""
           => UNCHANGED <<pc, raised_in, error, host_vars, loop_vars>> ]_vars

C12_Witness ==
    /\ pc = "failed" /\ raised_in = "save_image" /\ error = "HostError"
    /\ filepaths = <<P_m, P_m_c_PLY>> /\ path_index = 1
    /\ current # <<>> /\ pending # <<>>
    /\ job_index = 1 /\ Len(job_templates) = 2
    /\ Len(Imports) = 1 /\ Renders = <<>>
    /\ Imported(scene) = { Obj(mesh, current, TRUE) }

\* what the claim says decides the output path of a render: the source
\* path without its extension, the width and the image format
OutputKey(o) ==
    << Splitext(o.file).root, job_templates[o.jt].width,
       job_templates[o.jt].image_format >>

\* a render of a job template with the default output template and an
\* image format among bmp, jpg, png and tif
IsDefaultRender(o) ==
    /\ o.op = "render"
    /\ job_templates[o.jt].output_template = DEFAULT_OUTPUT_TEMPLATE
    /\ job_templates[o.jt].image_format \in IMAGE_FORMATS

\* the files the renders of the run have written, and for each the
\* position in the log of the render that wrote it last
OutputFiles == { log[i].path : i \in { k \in 1..Len(log) : log[k].op = "render" } }
WrittenBy(path) ==
    CHOOSE i \in 1..Len(log) :
        /\ log[i].op = "render" /\ log[i].path = path
        /\ \A k \in (i+1)..Len(log) : ~ (log[k].op = "render" /\ log[k].path = path)

\* C13: with the default output template and an image format among bmp,
\* jpg, png and tif, two renders of a run are given the same output path
\* exactly when their source paths without extension are equal and their
\* job templates have the same width and the same image format, whatever
\* the heights and the source extensions are.  (The log only grows, so
\* what is stated of its last entry and every earlier one in every state
\* holds of each two of its entries.)
C13_SamePathIffSameKey ==
    \A n \in {Len(log)} \ {0} :
        IsDefaultRender(log[n]) =>
            \A i \in 1..(n-1) :
                IsDefaultRender(log[i]) =>
                    (log[i].path = log[n].path
                       <=> OutputKey(log[i]) = OutputKey(log[n]))

C13_Witness ==
    /\ pc = "done" /\ filepaths = <<P_t, P_m_c_PLY>> /\ Len(job_templates) = 2
    /\ job_templates[1].height = 600 /\ job_templates[2].height = 400
    /\ Len(Renders) = 6 /\ Cardinality(OutputFiles) = 2
    /\ \E i, j \in 1..Len(log) :
          /\ i < j /\ IsDefaultRender(log[i]) /\ IsDefaultRender(log[j])
          /\ {log[i].file, log[j].file}
               = { PathJoin(D_t, F_d_ply), PathJoin(D_t, F_d_stl) }
          /\ log[i].jt = 1 /\ log[j].jt = 2
          /\ log[i].path = log[j].path
          /\ WrittenBy(log[i].path) > i
    /\ \E i, j \in 1..Len(log) :
          /\ IsDefaultRender(log[i]) /\ IsDefaultRender(log[j])
          /\ log[i].path # log[j].path

====
